---- MODULE Spec2Model ----
(***************************************************************************)
(* Verification model of the communication centralizer:                    *)
(*   - MessageClassifier / NLPProcessor (src/src/processing)               *)
(*   - GoogleSheetsStorage.store_message (src/src/storage/google_sheets.py)*)
(* Strings are TLA+ strings; a regular expression of the pattern table is  *)
(* the finite set of token sequences it denotes, a token being a literal   *)
(* or the class \s.                                                        *)
(***************************************************************************)
EXTENDS Integers, Sequences, FiniteSets, TLC

VARIABLES
    nlp,        \* the NLPProcessor instance held by the classifier (self.nlp)
    patterns,   \* MessageClassifier.patterns, the regex table
    pc,         \* "idle" | "returned": position of the caller of the classifier
    call,       \* the last classifier call: operation, argument, LLM outcome
    result,     \* what that call returned / raised, and which stages it ran
    first,      \* history: the first direct _classify_with_rules call
    book,       \* the Google spreadsheet: worksheet title -> rows of cells
    sheet_ok,   \* GoogleSheetsStorage.sheet is not None
    day,        \* index into Dates of datetime.now()'s date
    scall,      \* the last storage call, with the spreadsheet it found
    run,        \* the overlapping batch runs: position and locals of each
    fx,         \* the last fetch_messages call of a connector: payload, result
    mn,         \* main(): its position, its locals and the calls it made
    prev,       \* the spreadsheet as the last mark_as_processed call found it
    hcall,      \* the last extract_entities / analyze_sentiment call
    rt,         \* the last retry_operation call: the operation, the outcome
    gcal,       \* the last get_available_slots call: calendar, slots returned
    cly,        \* a CalendlyScheduler: its event_types and its last call
    crontab     \* the user's crontab and the last schedule_job / remove_job

cvars == <<nlp, patterns, pc, call, result, first>>

svars == <<book, sheet_ok, day, scall>>

xvars == <<fx, mn, prev, hcall>>

yvars == <<rt, gcal, cly, crontab>>

vars ==
    <<nlp, patterns, pc, call, result, first, book, sheet_ok, day, scall, run, xvars,
      yvars>>

----------------------------------------------------------------------------
(* Bounds of the model *)

\* texts are built from at most MaxWords words of Words
MaxWords == 2

\* direct _classify_with_rules calls take texts of at most MaxRuleWords words
MaxRuleWords == 1

Words == {"interview", "status", "offer", "introduction", "Meeting", "hello"}

\* score values the LLM backend may attach to a label
LLMScores == {0, 1}

----------------------------------------------------------------------------
(* Python str helpers *)

UpperToLower ==
    [c \in {"A","B","C","D","E","F","G","H","I","J","K","L","M","N","O","P",
            "Q","R","S","T","U","V","W","X","Y","Z"} |->
        CASE c = "A" -> "a" [] c = "B" -> "b" [] c = "C" -> "c" [] c = "D" -> "d"
          [] c = "E" -> "e" [] c = "F" -> "f" [] c = "G" -> "g" [] c = "H" -> "h"
          [] c = "I" -> "i" [] c = "J" -> "j" [] c = "K" -> "k" [] c = "L" -> "l"
          [] c = "M" -> "m" [] c = "N" -> "n" [] c = "O" -> "o" [] c = "P" -> "p"
          [] c = "Q" -> "q" [] c = "R" -> "r" [] c = "S" -> "s" [] c = "T" -> "t"
          [] c = "U" -> "u" [] c = "V" -> "v" [] c = "W" -> "w" [] c = "X" -> "x"
          [] c = "Y" -> "y" [] c = "Z" -> "z"]

\* str.lower(), character by character
RECURSIVE Lower(_)
Lower(s) ==
    IF Len(s) = 0 THEN ""
    ELSE LET c == SubSeq(s, 1, 1)
         IN  (IF c \in DOMAIN UpperToLower THEN UpperToLower[c] ELSE c)
                 \o Lower(SubSeq(s, 2, Len(s)))

\* the characters \s matches (those a TLA+ string can hold)
WhiteSpace == {" ", "\t", "\n", "\r", "\f"}

----------------------------------------------------------------------------
(* Regular expressions: a regex is the set of token sequences it denotes *)

WS == {<<"\\s">>}
Lit(s) == {<<s>>}
Opt(R) == R \cup {<<>>}
Cat(R1, R2) == {a \o b : a \in R1, b \in R2}
Cat3(R1, R2, R3) == Cat(R1, Cat(R2, R3))

\* does the token sequence alt match text t starting at position i
RECURSIVE MatchAt(_, _, _)
MatchAt(alt, t, i) ==
    IF alt = <<>> THEN TRUE
    ELSE LET tok == Head(alt)
         IN  IF tok = "\\s"
             THEN /\ i <= Len(t)
                  /\ SubSeq(t, i, i) \in WhiteSpace
                  /\ MatchAt(Tail(alt), t, i + 1)
             ELSE /\ i + Len(tok) - 1 <= Len(t)
                  /\ SubSeq(t, i, i + Len(tok) - 1) = tok
                  /\ MatchAt(Tail(alt), t, i + Len(tok))

\* re.search(pattern, text, re.IGNORECASE) on an already lower-cased text:
\* the patterns hold no upper-case letter
re_search(regex, t) ==
    \E alt \in regex : \E i \in 1..(Len(t) + 1) : MatchAt(alt, t, i)

----------------------------------------------------------------------------
(* MessageClassifier.__init__: the pattern table, in dict insertion order *)

Intents == <<"interview_request", "follow_up", "job_offer", "networking">>

InitialPatterns ==
    [interview_request |-> <<
        Lit("interview"),
        Cat3(Lit("meet"), Opt(Lit("ing")),
             WS \cup Cat(Lit("to"), WS) \cup Cat(Lit("for"), WS)),
        Cat3(Lit("schedule"), Opt(Cat(WS, Lit("a"))),
             WS \cup Lit("call") \cup Lit("chat") \cup Lit("meeting")),
        Cat(Lit("available"), WS \cup Lit("for") \cup Lit("to")),
        Cat(Lit("speak"), WS \cup Lit("with") \cup Lit("to")),
        Cat(Lit("discuss"), WS \cup Lit("your") \cup Lit("the")),
        Cat(Lit("call"), WS \cup Lit("with") \cup Lit("to")),
        Cat(Lit("time"), WS \cup Lit("for") \cup Lit("to")),
        Cat(Lit("talk"), WS \cup Lit("about") \cup Lit("with")) >>,
     follow_up |-> <<
        Cat3(Cat(Lit("follow"), Opt(Lit("ing"))), Opt(WS \cup Lit("-")), Lit("up")),
        Cat(Lit("checking"), WS \cup Lit("in")),
        Lit("status"),
        Lit("update"),
        Lit("progress"),
        Cat3(Lit("hear"), Opt(Lit("ing")), WS \cup Lit("back") \cup Lit("from")) >>,
     job_offer |-> <<
        Lit("offer"),
        Lit("position"),
        Lit("role"),
        Lit("salary"),
        Lit("compensation"),
        Lit("package"),
        Lit("accept"),
        Cat(Lit("join"), WS \cup Lit("our") \cup Lit("the")),
        Cat(Lit("welcome"), WS \cup Lit("to") \cup Lit("aboard")) >>,
     networking |-> <<
        Lit("connect"),
        Lit("network"),
        Lit("introduction"),
        Lit("contact"),
        Lit("recommendation"),
        Lit("refer"),
        Lit("introduction"),
        Lit("community") >>]

----------------------------------------------------------------------------
(* MessageClassifier._classify_with_rules *)

\* scores[intent]: one increment per list entry whose pattern matches
RuleScores(pat, text) ==
    LET t == Lower(text)
    IN  [intent \in DOMAIN pat |->
            Cardinality({k \in 1..Len(pat[intent]) : re_search(pat[intent][k], t)})]

\* RuleLabel with the tie resolved towards the last tied label
RuleLabel_last_tied(scores) ==
    LET max_score == CHOOSE m \in {scores[x] : x \in DOMAIN scores} :
                        \A x \in DOMAIN scores : scores[x] <= m
        top_intents == SelectSeq(Intents, LAMBDA x : scores[x] = max_score)
    IN  IF max_score = 0 THEN "other"
        ELSE top_intents[Len(top_intents)]

\* RuleLabel without the test for a maximum of 0
RuleLabel_no_zero_test(scores) ==
    LET max_score == CHOOSE m \in {scores[x] : x \in DOMAIN scores} :
                        \A x \in DOMAIN scores : scores[x] <= m
        top_intents == SelectSeq(Intents, LAMBDA x : scores[x] = max_score)
    IN  IF Len(top_intents) = 1 THEN top_intents[1]
        ELSE IF \E k \in 1..Len(top_intents) : top_intents[k] = "interview_request"
             THEN "interview_request"
        ELSE top_intents[1]

\* the label chosen from a score table
RuleLabel(scores) ==
    LET max_score == CHOOSE m \in {scores[x] : x \in DOMAIN scores} :
                        \A x \in DOMAIN scores : scores[x] <= m
        top_intents == SelectSeq(Intents, LAMBDA x : scores[x] = max_score)
    IN  IF max_score = 0 THEN "other"
        ELSE IF Len(top_intents) = 1 THEN top_intents[1]
        ELSE IF \E k \in 1..Len(top_intents) : top_intents[k] = "interview_request"
             THEN "interview_request"
        ELSE top_intents[1]

classify_with_rules(pat, text) == RuleLabel(RuleScores(pat, text))

\* scores before any pattern is tried
NoScores == [intent \in {Intents[k] : k \in 1..Len(Intents)} |-> 0]

\* the call self._classify_with_rules(text) as Python executes it: text.lower()
\* raises AttributeError for an argument that is not a str
rules_call(pat, arg) ==
    IF arg.kind = "str"
    THEN [ret |-> classify_with_rules(pat, arg.val), raised |-> FALSE,
          scores |-> RuleScores(pat, arg.val)]
    ELSE [ret |-> "", raised |-> TRUE, scores |-> NoScores]

\* a rule stage that pops the last pattern of each list it has walked
rules_patterns_popped(pat, arg) ==
    [intent \in DOMAIN pat |-> SubSeq(pat[intent], 1, Len(pat[intent]) - 1)]

\* self.patterns after a _classify_with_rules call: the method assigns only
\* to its locals text, scores, max_score, top_intents
rules_patterns_after(pat, arg) == pat

----------------------------------------------------------------------------
(* NLPProcessor *)

\* labels the LLM task is configured with, in configuration order
LLMLabels == <<"interview_request", "follow_up", "job_offer", "networking", "other">>

LLMLabelSet == {LLMLabels[k] : k \in 1..Len(LLMLabels)}

\* NLPProcessor.__init__: spacy_ok = spacy.load succeeded, enable_llm = the
\* ENABLE_LLM setting, assemble_ok = _init_llm_pipeline built the pipeline.
\* When spacy.load raises, llm_enabled is never assigned.
NLPProcessorInit(spacy_ok, enable_llm, assemble_ok) ==
    IF ~spacy_ok
    THEN [basic_nlp |-> FALSE, llm_nlp |-> FALSE, llm_enabled |-> "unset"]
    ELSE IF enable_llm
         THEN [basic_nlp |-> TRUE, llm_nlp |-> assemble_ok, llm_enabled |-> "True"]
         ELSE [basic_nlp |-> TRUE, llm_nlp |-> FALSE, llm_enabled |-> "False"]

\* NLPProcessor._classify_with_llm: doc.cats, or {} when the model is missing
\* or the call raises; env.llm is what the backend does on this call
nlp_classify_with_llm(p, arg, env) ==
    IF ~p.llm_nlp THEN <<>>
    ELSE IF env.llm.kind = "raise" THEN <<>>
    ELSE env.llm.cats

\* NLPProcessor.analyze_text: has_llm = the key llm_classification is present
analyze_text(p, arg, env) ==
    IF ~p.basic_nlp
    THEN [has_llm |-> FALSE, cats |-> <<>>, llm_calls |-> 0]
    ELSE IF arg.kind # "str" \/ env.basic = "raise" \/ p.llm_enabled = "unset"
    THEN [has_llm |-> FALSE, cats |-> <<>>, llm_calls |-> 0]
    ELSE IF p.llm_enabled = "True" /\ p.llm_nlp
    THEN [has_llm |-> TRUE, cats |-> nlp_classify_with_llm(p, arg, env), llm_calls |-> 1]
    ELSE [has_llm |-> FALSE, cats |-> <<>>, llm_calls |-> 0]

----------------------------------------------------------------------------
(* MessageClassifier.classify / _classify_with_llm *)

\* the first label of the mapping, whatever its score
TopCat_first_label(cats) ==
    LET top == SelectSeq(LLMLabels, LAMBDA x : x \in DOMAIN cats)
    IN  top[1]

\* max(cats.items(), key=lambda x: x[1])[0]: the first label, in the
\* mapping's order, whose score is maximal
TopCat(cats) ==
    LET top == SelectSeq(LLMLabels,
                   LAMBDA x : x \in DOMAIN cats
                              /\ \A y \in DOMAIN cats : cats[y] <= cats[x])
    IN  top[1]

\* what a call leaves behind: the value returned or the fact that it raised,
\* the scores local of the rule stage, and how often each stage was entered
Outcome(ret, raised, scores, analyze_calls, llm_calls, rule_calls) ==
    [ret |-> ret, raised |-> raised, scores |-> scores,
     analyze_calls |-> analyze_calls, llm_calls |-> llm_calls,
     rule_calls |-> rule_calls]

\* MessageClassifier._classify_with_llm
classifier_classify_with_llm(p, pat, arg, env) ==
    LET analysis == analyze_text(p, arg, env)
    IN  IF analysis.has_llm /\ DOMAIN analysis.cats # {}
        THEN Outcome(TopCat(analysis.cats), FALSE, NoScores,
                     1, analysis.llm_calls, 0)
        ELSE LET r == rules_call(pat, arg)
             IN  Outcome(r.ret, r.raised, r.scores, 1, analysis.llm_calls, 1)

\* Python truthiness of the argument: None and "" are falsy
Falsy(arg) == arg.kind = "none" \/ (arg.kind = "str" /\ arg.val = "")

\* the body of the try block of classify
classify_try(p, pat, arg, env) ==
    IF p.llm_enabled = "unset"
    THEN Outcome("", TRUE, NoScores, 0, 0, 0)
    ELSE IF p.llm_enabled = "True" /\ p.llm_nlp
    THEN classifier_classify_with_llm(p, pat, arg, env)
    ELSE LET r == rules_call(pat, arg)
         IN  Outcome(r.ret, r.raised, r.scores, 0, 0, 1)

\* classify without its except clause
classify_uncaught(p, pat, arg, env) ==
    IF Falsy(arg)
    THEN Outcome("unknown", FALSE, NoScores, 0, 0, 0)
    ELSE classify_try(p, pat, arg, env)

\* classify without its test for a falsy text
classify_unguarded(p, pat, arg, env) ==
    LET inner == classify_try(p, pat, arg, env)
    IN  IF inner.raised
        THEN [inner EXCEPT !.ret = "unknown", !.raised = FALSE]
        ELSE inner

\* MessageClassifier.classify
classify(p, pat, arg, env) ==
    IF Falsy(arg)
    THEN Outcome("unknown", FALSE, NoScores, 0, 0, 0)
    ELSE LET inner == classify_try(p, pat, arg, env)
         IN  IF inner.raised
             THEN [inner EXCEPT !.ret = "unknown", !.raised = FALSE]
             ELSE inner

----------------------------------------------------------------------------
(* Inputs of the classifier *)

Join(S) == {a \o " " \o b : a \in S, b \in Words}

RECURSIVE TextsOf(_)
TextsOf(n) == IF n = 0 THEN {""}
              ELSE IF n = 1 THEN Words
              ELSE Join(TextsOf(n - 1))

Texts == UNION {TextsOf(n) : n \in 0..MaxWords}

None == [kind |-> "none", val |-> ""]

\* a truthy argument that is not a str
NonStr == [kind |-> "obj", val |-> ""]

Args == {[kind |-> "str", val |-> t] : t \in Texts} \cup {None, NonStr}

RuleArgs ==
    {[kind |-> "str", val |-> t] : t \in UNION {TextsOf(n) : n \in 0..MaxRuleWords}}
        \cup {None, NonStr}

LLMOutcomes ==
    {[kind |-> "raise", cats |-> <<>>], [kind |-> "cats", cats |-> <<>>]}
        \cup {[kind |-> "cats", cats |-> c] : c \in [LLMLabelSet -> LLMScores]}

\* what spaCy and the LLM backend do on one call
Envs == {[basic |-> "raise", llm |-> [kind |-> "raise", cats |-> <<>>]]}
            \cup {[basic |-> "ok", llm |-> o] : o \in LLMOutcomes}

NoEnv == [basic |-> "unused", llm |-> [kind |-> "unused", cats |-> <<>>]]

NoCall == [op |-> "none", arg |-> None, env |-> NoEnv]

NoResult == Outcome("", FALSE, NoScores, 0, 0, 0)

\* repeated: a later direct call has been made since the first one
NoFirst == [set |-> FALSE, arg |-> None, ret |-> "", raised |-> FALSE,
            repeated |-> FALSE]

----------------------------------------------------------------------------
(* Python values of the connectors: a dict is a record whose keys are its   *)
(* DOMAIN; a value that may be None is a record [kind, val]                 *)

Str(s) == [kind |-> "str", val |-> s]

\* key in dict
Has(d, k) == k \in DOMAIN d

\* dict.get(key, default) for a key whose value is a str or None
Get(d, k, default) == IF Has(d, k) THEN d[k] ELSE Str(default)

\* position of the first occurrence of character c in s, 0 when there is none
Find(s, c) ==
    LET at == {k \in 1..Len(s) : SubSeq(s, k, k) = c}
    IN  IF at = {} THEN 0 ELSE CHOOSE k \in at : \A j \in at : k <= j

\* s.split(c)[0]
BeforeFirst(s, c) == IF Find(s, c) = 0 THEN s ELSE SubSeq(s, 1, Find(s, c) - 1)

\* s.split(c)[1], for an s that holds c
AfterFirst(s, c) == BeforeFirst(SubSeq(s, Find(s, c) + 1, Len(s)), c)

\* str.strip()
RECURSIVE Strip(_)
Strip(s) ==
    IF Len(s) = 0 THEN s
    ELSE IF SubSeq(s, 1, 1) \in WhiteSpace THEN Strip(SubSeq(s, 2, Len(s)))
    ELSE IF SubSeq(s, Len(s), Len(s)) \in WhiteSpace THEN Strip(SubSeq(s, 1, Len(s) - 1))
    ELSE s

\* str(n) for the small counts of the model
ToStr(n) ==
    CASE n = 0 -> "0" [] n = 1 -> "1" [] n = 2 -> "2" [] n = 3 -> "3"
      [] n = 4 -> "4" [] n = 5 -> "5" [] n = 6 -> "6" [] n = 7 -> "7"
      [] n = 8 -> "8" [] n = 9 -> "9"

\* what a fetch_messages call gives back; raised, when the exception leaves
\* fetch_messages; caught, when its except clause ran
Fetched(ret, raised, caught) == [ret |-> ret, raised |-> raised, caught |-> caught]

\* what a step inside a try block gives: a value, or an exception
Val(v) == [raised |-> FALSE, val |-> v]

Raise == [raised |-> TRUE, val |-> ""]

----------------------------------------------------------------------------
(* EmailConnector *)

\* the URL-safe base64 texts of the model and what they decode to
B64 ==
    ("" :> "") @@ ("aW50ZXJ2aWV3" :> "interview") @@ ("c3RhdHVz" :> "status")
        @@ ("aGVsbG8=" :> "hello")

\* base64.urlsafe_b64decode(data.encode('ASCII')).decode('utf-8'): raises on
\* a text that is not base64
b64decode(data) == IF data \in DOMAIN B64 THEN Val(B64[data]) ELSE Raise

\* the for loop of _get_gmail_body over payload['parts'], from part k on:
\* the first text/plain part that holds data, found = FALSE when none does
RECURSIVE gmail_plain_part(_, _)
gmail_plain_part(parts, k) ==
    IF k > Len(parts) THEN [found |-> FALSE, body |-> Val("")]
    ELSE IF ~Has(parts[k], "mimeType") THEN [found |-> TRUE, body |-> Raise]
    ELSE IF parts[k].mimeType # "text/plain" THEN gmail_plain_part(parts, k + 1)
    ELSE IF ~Has(parts[k], "body") THEN [found |-> TRUE, body |-> Raise]
    ELSE IF Has(parts[k].body, "data")
    THEN [found |-> TRUE, body |-> b64decode(parts[k].body.data)]
    ELSE gmail_plain_part(parts, k + 1)

\* EmailConnector._get_gmail_body
RECURSIVE get_gmail_body(_)
get_gmail_body(payload) ==
    IF Has(payload, "body") /\ Has(payload.body, "data") /\ payload.body.data # ""
    THEN b64decode(payload.body.data)
    ELSE IF Has(payload, "parts")
    THEN LET p == gmail_plain_part(payload.parts, 1)
         IN  IF p.found THEN p.body
             ELSE IF Len(payload.parts) = 0 THEN Raise
             ELSE get_gmail_body(payload.parts[1])
    ELSE Val("")

\* EmailConnector._extract_email
extract_email(from_header) ==
    IF Find(from_header, "<") # 0 /\ Find(from_header, ">") # 0
    THEN BeforeFirst(AfterFirst(from_header, "<"), ">")
    ELSE from_header

\* headers.get(name, ''), headers being the dict built from the list of
\* name/value pairs: the last pair of a name wins
header_get(headers, name) ==
    LET at == {k \in 1..Len(headers) : headers[k].name = name}
    IN  IF at = {} THEN ""
        ELSE headers[CHOOSE k \in at : \A j \in at : j <= k].value

\* the body of the for loop of _fetch_gmail_messages for one listed message:
\* messages().get(...).execute() and the standardized record
gmail_process(msg) ==
    IF ~Has(msg, "id") \/ msg.get = "raise" THEN Raise
    ELSE IF ~Has(msg.data, "payload") \/ ~Has(msg.data.payload, "headers") THEN Raise
    ELSE IF \E k \in 1..Len(msg.data.payload.headers) :
                ~Has(msg.data.payload.headers[k], "name")
                    \/ ~Has(msg.data.payload.headers[k], "value")
    THEN Raise
    ELSE LET headers == msg.data.payload.headers
             body == get_gmail_body(msg.data.payload)
         IN  IF body.raised \/ ~Has(msg.data, "internalDate") THEN Raise
             ELSE Val([id |-> msg.id,
                       source |-> "gmail",
                       sender_name |->
                           Str(Strip(BeforeFirst(header_get(headers, "From"), "<"))),
                       sender_email |-> Str(extract_email(header_get(headers, "From"))),
                       timestamp |-> Str(msg.data.internalDate),
                       subject |-> header_get(headers, "Subject"),
                       content |-> Str(body.val),
                       raw_data |-> msg.data])

\* the for loop of _fetch_gmail_messages from message k on; an exception
\* ends the loop
RECURSIVE gmail_loop(_, _, _)
gmail_loop(messages, k, results) ==
    IF k > Len(messages) THEN Val(results)
    ELSE LET m == gmail_process(messages[k])
         IN  IF m.raised THEN Raise
             ELSE gmail_loop(messages, k + 1, Append(results, m.val))

\* EmailConnector.fetch_messages; inbox.list is what messages().list(...)
\* .execute() does, inbox.messages the messages it lists
email_fetch_messages(email_type, inbox) ==
    IF email_type = "gmail"
    THEN IF inbox.list = "raise" THEN Fetched(<<>>, FALSE, TRUE)
         ELSE LET r == gmail_loop(inbox.messages, 1, <<>>)
              IN  IF r.raised THEN Fetched(<<>>, FALSE, TRUE)
                  ELSE Fetched(r.val, FALSE, FALSE)
    ELSE Fetched(<<>>, FALSE, FALSE)

\* EmailConnector.__init__: raised = the constructor raises. creds names what
\* _init_gmail finds: a valid token file cannot be read because the module
\* never imports json; without one the OAuth flow runs
EmailConnectorInit(email_type, creds) ==
    IF email_type = "gmail"
    THEN [email_type |-> email_type, raised |-> creds # "flow_ok"]
    ELSE IF email_type = "outlook"
    THEN [email_type |-> email_type, raised |-> FALSE]
    ELSE [email_type |-> email_type, raised |-> TRUE]

----------------------------------------------------------------------------
(* LinkedInConnector *)

\* the body of the for loop of _process_linkedin_messages; n is
\* len(processed_messages)
linkedin_process(msg, n) ==
    [id |-> IF Has(msg, "id") THEN msg.id ELSE "linkedin_" \o ToStr(n),
     source |-> "linkedin",
     sender_name |-> Get(msg, "senderName", ""),
     sender_email |-> Get(msg, "senderEmail", ""),
     timestamp |-> Get(msg, "timestamp", ""),
     subject |-> "",
     content |-> Get(msg, "messageContent", ""),
     raw_data |-> msg]

\* LinkedInConnector._process_linkedin_messages
process_linkedin_messages(raw_messages) ==
    [k \in 1..Len(raw_messages) |-> linkedin_process(raw_messages[k], k - 1)]

\* LinkedInConnector.fetch_messages; agent names what the PhantomBuster
\* requests do: launch, status and output of the container
linkedin_fetch_messages(credentials, agent) ==
    IF ~credentials THEN Fetched(<<>>, FALSE, FALSE)
    ELSE IF agent.launch = "raise" THEN Fetched(<<>>, FALSE, TRUE)
    ELSE IF agent.launch = "failed" THEN Fetched(<<>>, FALSE, FALSE)
    ELSE IF agent.status = "raise" THEN Fetched(<<>>, FALSE, TRUE)
    ELSE IF agent.status # "finished" THEN Fetched(<<>>, FALSE, FALSE)
    ELSE IF agent.output = "raise" THEN Fetched(<<>>, FALSE, TRUE)
    ELSE IF agent.output = "none" \/ Len(agent.messages) = 0
    THEN Fetched(<<>>, FALSE, FALSE)
    ELSE Fetched(process_linkedin_messages(agent.messages), FALSE, FALSE)

----------------------------------------------------------------------------
(* HandshakeConnector *)

\* str.replace(' ', '_')
RECURSIVE ReplaceSpaces(_)
ReplaceSpaces(s) ==
    IF Len(s) = 0 THEN s
    ELSE (IF SubSeq(s, 1, 1) = " " THEN "_" ELSE SubSeq(s, 1, 1))
             \o ReplaceSpaces(SubSeq(s, 2, Len(s)))

\* the message built by _fetch_with_selenium for thread i (0-based)
handshake_selenium_message(thread, i) ==
    [id |-> "handshake_" \o ToStr(i) \o "_" \o ReplaceSpaces(thread.timestamp),
     source |-> "handshake",
     sender_name |-> Str(thread.sender),
     sender_email |-> Str(""),
     timestamp |-> Str(thread.timestamp),
     subject |-> "",
     content |-> Str(thread.content),
     raw_data |-> [sender |-> thread.sender, content |-> thread.content,
                   timestamp |-> thread.timestamp]]

\* the longest prefix of the threads whose pages all load
RECURSIVE LoadedPrefix(_, _)
LoadedPrefix(threads, k) ==
    IF k > Len(threads) \/ threads[k].load = "raise" THEN k - 1
    ELSE LoadedPrefix(threads, k + 1)

\* HandshakeConnector._fetch_with_selenium; browser.driver = "raise": the
\* Chrome driver cannot be set up, driver stays None; browser.login: the
\* log-in and navigation; browser.quit: driver.quit() of the finally clause
fetch_with_selenium(browser) ==
    IF browser.driver = "raise" THEN Fetched(<<>>, FALSE, TRUE)
    ELSE LET threads == SubSeq(browser.threads, 1,
                               IF Len(browser.threads) > 10 THEN 10
                               ELSE Len(browser.threads))
             failed == browser.login = "raise"
                           \/ LoadedPrefix(threads, 1) < Len(threads)
         IN  IF browser.quit = "raise" THEN Fetched(<<>>, TRUE, failed)
             ELSE IF failed THEN Fetched(<<>>, FALSE, TRUE)
             ELSE Fetched([k \in 1..Len(threads) |->
                              handshake_selenium_message(threads[k], k - 1)],
                          FALSE, FALSE)

\* the message built by _fetch_with_puppeteer for raw message i (0-based)
handshake_puppeteer_message(msg, i) ==
    [id |-> IF Has(msg, "id") THEN msg.id ELSE "handshake_" \o ToStr(i),
     source |-> "handshake",
     sender_name |-> Get(msg, "sender", "Unknown Sender"),
     sender_email |-> Str(""),
     timestamp |-> Get(msg, "timestamp", ""),
     subject |-> "",
     content |-> Get(msg, "content", ""),
     raw_data |-> msg]

\* HandshakeConnector._fetch_with_puppeteer; node names what the script
\* does: node.run = "raise" when subprocess.run raises, node.stdout = "json"
\* when it printed the JSON list node.messages
fetch_with_puppeteer(node) ==
    IF node.run = "raise" THEN Fetched(<<>>, FALSE, TRUE)
    ELSE IF node.stdout = "empty" THEN Fetched(<<>>, FALSE, FALSE)
    ELSE IF node.stdout = "invalid" THEN Fetched(<<>>, FALSE, TRUE)
    ELSE Fetched([k \in 1..Len(node.messages) |->
                     handshake_puppeteer_message(node.messages[k], k - 1)],
                 FALSE, FALSE)

\* HandshakeConnector.fetch_messages
handshake_fetch_messages(credentials, automation_type, site) ==
    IF ~credentials THEN Fetched(<<>>, FALSE, FALSE)
    ELSE IF automation_type = "puppeteer" THEN fetch_with_puppeteer(site)
    ELSE fetch_with_selenium(site)

----------------------------------------------------------------------------
(* SlackConnector *)

Digits == {"0", "1", "2", "3", "4", "5", "6", "7", "8", "9"}

\* s without its trailing zeros
RECURSIVE TrimZeros(_)
TrimZeros(s) ==
    IF Len(s) > 0 /\ SubSeq(s, Len(s), Len(s)) = "0"
    THEN TrimZeros(SubSeq(s, 1, Len(s) - 1))
    ELSE s

\* float(s) for a decimal numeral without sign or exponent, the float being
\* written as repr() writes it; raises ValueError on any other text
float(s) ==
    LET dot == Find(s, ".")
        int == IF dot = 0 THEN s ELSE SubSeq(s, 1, dot - 1)
        frac == IF dot = 0 THEN "" ELSE SubSeq(s, dot + 1, Len(s))
        digits(t) == \A k \in 1..Len(t) : SubSeq(t, k, k) \in Digits
    IN  IF Len(int) + Len(frac) = 0 \/ ~digits(int) \/ ~digits(frac) THEN Raise
        ELSE Val((IF int = "" THEN "0" ELSE int) \o "."
                     \o (IF TrimZeros(frac) = "" THEN "0" ELSE TrimZeros(frac)))

\* SlackConnector._get_user_info: users_info of the message's user, {} when
\* the request raises SlackApiError
get_user_info(msg) ==
    IF ~msg.users_info.ok THEN <<>>
    ELSE IF Has(msg.users_info, "user") THEN msg.users_info.user
    ELSE <<>>

\* the body of the inner for loop of fetch_messages for a message that is
\* not skipped
slack_process(conversation, msg) ==
    LET user_info == get_user_info(msg)
        channel_name == IF Has(conversation, "name") THEN conversation.name
                        ELSE "Direct Message"
    IN  IF ~Has(msg, "ts") \/ float(msg.ts).raised THEN Raise
        ELSE Val([id |-> msg.ts,
                  source |-> "slack",
                  sender_name |-> Get(user_info, "real_name", "Unknown User"),
                  sender_email |-> IF Has(user_info, "profile")
                                   THEN Get(user_info.profile, "email", "")
                                   ELSE Str(""),
                  timestamp |-> [kind |-> "float", val |-> float(msg.ts).val],
                  subject |-> "Message in " \o channel_name,
                  content |-> Get(msg, "text", ""),
                  raw_data |-> [channel |-> conversation.id, user |-> msg.user,
                                ts |-> msg.ts, text |-> Get(msg, "text", "")]])

\* the inner for loop over the messages of one conversation, from message k
RECURSIVE slack_messages_loop(_, _, _)
slack_messages_loop(conversation, k, all_messages) ==
    IF k > Len(conversation.messages) THEN Val(all_messages)
    ELSE LET msg == conversation.messages[k]
         IN  IF ~Has(msg, "user")
                    \/ (Has(msg, "subtype") /\ msg.subtype = "bot_message")
             THEN slack_messages_loop(conversation, k + 1, all_messages)
             ELSE LET m == slack_process(conversation, msg)
                  IN  IF m.raised THEN Raise
                      ELSE slack_messages_loop(conversation, k + 1,
                                               Append(all_messages, m.val))

\* the outer for loop over the DM channels, from conversation c
RECURSIVE slack_conversations_loop(_, _, _)
slack_conversations_loop(conversations, c, all_messages) ==
    IF c > Len(conversations) THEN Val(all_messages)
    ELSE IF ~Has(conversations[c], "id") \/ conversations[c].history = "raise"
    THEN Raise
    ELSE LET r == slack_messages_loop(conversations[c], 1, all_messages)
         IN  IF r.raised THEN Raise
             ELSE slack_conversations_loop(conversations, c + 1, r.val)

\* SlackConnector.fetch_messages; token: SLACK_BOT_TOKEN is set; workspace
\* names what conversations_list, conversations_history and users_info do
slack_fetch_messages(token, workspace) ==
    IF ~token THEN Fetched(<<>>, FALSE, FALSE)
    ELSE IF workspace.list = "raise" THEN Fetched(<<>>, FALSE, TRUE)
    ELSE LET r == slack_conversations_loop(workspace.channels, 1, <<>>)
         IN  IF r.raised THEN Fetched(<<>>, FALSE, TRUE)
             ELSE Fetched(r.val, FALSE, FALSE)

----------------------------------------------------------------------------
(* DiscordConnector *)

\* the standardized record of _fetch_messages_async for one DM; created_at
\* is message.created_at.timestamp(), created_iso its isoformat()
discord_process(channel_id, message) ==
    [id |-> ToStr(message.id),
     source |-> "discord",
     sender_name |-> Str(message.author_name),
     sender_email |-> Str(""),
     timestamp |-> [kind |-> "float", val |-> message.created_at],
     subject |-> "DM from " \o message.author_name,
     content |-> Str(message.content),
     raw_data |-> [author_id |-> message.author_id, channel_id |-> channel_id,
                   message_id |-> message.id,
                   created_at |-> message.created_iso]]

\* the messages of one DM channel that the bot did not write itself
discord_history(channel) ==
    LET kept == SelectSeq(channel.history, LAMBDA m : ~m.from_bot)
    IN  [k \in 1..Len(kept) |-> discord_process(channel.id, kept[k])]

\* _fetch_messages_async over the private channels, from channel c on
RECURSIVE discord_channels_loop(_, _, _)
discord_channels_loop(channels, c, messages) ==
    IF c > Len(channels) THEN messages
    ELSE discord_channels_loop(channels, c + 1,
             IF channels[c].dm THEN messages \o discord_history(channels[c])
             ELSE messages)

\* DiscordConnector.fetch_messages; token: DISCORD_BOT_TOKEN is set;
\* guild.start = "raise" when bot.start raises (login failure, network)
discord_fetch_messages(token, guild) ==
    IF ~token THEN Fetched(<<>>, FALSE, FALSE)
    ELSE IF guild.start = "raise" THEN Fetched(<<>>, FALSE, TRUE)
    ELSE Fetched(discord_channels_loop(guild.channels, 1, <<>>), FALSE, FALSE)

----------------------------------------------------------------------------
(* Payloads the connectors are given *)

\* a fetch lists at most MaxFetch raw messages
MaxFetch == 2

\* the lists of at most MaxFetch elements of V
ListsOf(V) == UNION {[1..m -> V] : m \in 0..MaxFetch}

GoodHeaders ==
    <<[name |-> "From", value |-> "Test Sender <sender@example.com>"],
      [name |-> "Subject", value |-> "Test Subject"]>>

\* a message of messages().list with what messages().get gives for it:
\* well-formed ones (full, multipart, nested, bare, no_from) and ones that
\* lack a part of the payload
GmailMessage(id, variant) ==
    LET stub == [id |-> id, get |-> "ok"]
        data(payload) == [payload |-> payload, internalDate |-> "1673352000000"]
        with(d) == stub @@ [data |-> d]
    IN  CASE variant = "full" ->
                with(data([headers |-> GoodHeaders, body |-> [data |-> "aW50ZXJ2aWV3"]]))
          [] variant = "multipart" ->
                with(data([headers |-> GoodHeaders, body |-> [size |-> 0],
                           parts |-> <<[mimeType |-> "text/html",
                                        body |-> [data |-> "aGVsbG8="]],
                                       [mimeType |-> "text/plain",
                                        body |-> [data |-> "c3RhdHVz"]]>>]))
          [] variant = "nested" ->
                with(data([headers |-> GoodHeaders,
                           parts |-> <<[mimeType |-> "multipart/alternative",
                                        body |-> [data |-> "aGVsbG8="]]>>]))
          [] variant = "bare" ->
                with(data([headers |-> <<[name |-> "From",
                                          value |-> "sender@example.com"]>>]))
          [] variant = "no_from" ->
                with(data([headers |-> <<>>, body |-> [data |-> "aW50ZXJ2aWV3"]]))
          [] variant = "no_id" ->
                [get |-> "ok",
                 data |-> data([headers |-> GoodHeaders, body |-> [data |-> "c3RhdHVz"]])]
          [] variant = "no_payload" -> with([internalDate |-> "1673352000000"])
          [] variant = "no_headers" ->
                with(data([body |-> [data |-> "aW50ZXJ2aWV3"]]))
          [] variant = "no_date" ->
                with([payload |-> [headers |-> GoodHeaders,
                                   body |-> [data |-> "aW50ZXJ2aWV3"]]])
          [] variant = "bad_body" ->
                with(data([headers |-> GoodHeaders, body |-> [data |-> "%%%"]]))
          [] variant = "empty_parts" ->
                with(data([headers |-> GoodHeaders, parts |-> <<>>]))
          [] variant = "get_raises" -> [id |-> id, get |-> "raise", data |-> <<>>]

GmailVariants ==
    {"full", "multipart", "nested", "bare", "no_from", "no_id", "no_payload",
     "no_headers", "no_date", "bad_body", "empty_parts", "get_raises"}

GmailInbox(variants) ==
    [list |-> "ok",
     messages |-> [k \in 1..Len(variants) |->
                      GmailMessage("g" \o ToStr(k), variants[k])]]

GmailInboxes ==
    {GmailInbox(vs) : vs \in ListsOf(GmailVariants)}
        \cup {[list |-> "raise", messages |-> <<>>]}

\* a message of the PhantomBuster output
LinkedInMessage(id, variant) ==
    LET full == [id |-> id, senderName |-> Str("Test Sender"),
                 senderEmail |-> Str("sender@example.com"),
                 timestamp |-> Str("2023-01-10T12:00:00"),
                 messageContent |-> Str("interview")]
    IN  CASE variant = "full" -> full
          [] variant = "no_id" -> [senderName |-> Str("Test Sender"),
                                   messageContent |-> Str("status")]
          [] variant = "null_email" -> [full EXCEPT !.senderEmail = None]
          [] variant = "null_content" -> [full EXCEPT !.messageContent = None]
          [] variant = "empty" -> <<>>

LinkedInVariants == {"full", "no_id", "null_email", "null_content", "empty"}

LinkedInAgents ==
    {[launch |-> "ok", status |-> "finished", output |-> "ok",
      messages |-> [k \in 1..Len(vs) |-> LinkedInMessage("l" \o ToStr(k), vs[k])]] :
         vs \in ListsOf(LinkedInVariants)}
      \cup {[launch |-> l, status |-> s, output |-> o, messages |-> <<>>] :
               l \in {"ok", "failed", "raise"},
               s \in {"finished", "failed", "timeout", "raise"},
               o \in {"none", "raise"}}

\* a message thread of the Handshake site
HandshakeThread(variant) ==
    [load |-> IF variant = "stale" THEN "raise" ELSE "ok",
     sender |-> "Recruiter",
     content |-> IF variant = "interview" THEN "interview" ELSE "hello",
     timestamp |-> "Jan 10 2023"]

\* the Chrome driver cannot be set up
HandshakeDriverDown ==
    [driver |-> "raise", login |-> "ok", quit |-> "ok", threads |-> <<>>]

HandshakeBrowsers ==
    {[driver |-> "ok", login |-> "ok", quit |-> q,
      threads |-> [k \in 1..Len(vs) |-> HandshakeThread(vs[k])]] :
         vs \in ListsOf({"interview", "hello", "stale"}), q \in {"ok", "raise"}}
      \cup {HandshakeDriverDown,
            [driver |-> "ok", login |-> "raise", quit |-> "ok", threads |-> <<>>],
            [driver |-> "ok", login |-> "raise", quit |-> "raise", threads |-> <<>>]}

\* a message of the JSON list the Puppeteer script prints
PuppeteerMessage(id, variant) ==
    CASE variant = "full" -> [id |-> id, sender |-> Str("Recruiter"),
                              timestamp |-> Str("Jan 10 2023"),
                              content |-> Str("interview")]
      [] variant = "null_content" -> [id |-> id, sender |-> Str("Recruiter"),
                                      content |-> None]
      [] variant = "empty" -> <<>>

\* node or the script cannot be run
HandshakeNodeDown == [run |-> "raise", stdout |-> "empty", messages |-> <<>>]

HandshakeNodes ==
    {[run |-> "ok", stdout |-> "json",
      messages |-> [k \in 1..Len(vs) |-> PuppeteerMessage("h" \o ToStr(k), vs[k])]] :
         vs \in ListsOf({"full", "null_content", "empty"})}
      \cup {HandshakeNodeDown,
            [run |-> "ok", stdout |-> "empty", messages |-> <<>>],
            [run |-> "ok", stdout |-> "invalid", messages |-> <<>>]}

\* a message of conversations_history with what users_info gives for its user
SlackMessage(ts, variant) ==
    LET user == [real_name |-> Str("Test Sender"),
                 profile |-> [email |-> Str("sender@example.com")]]
        full == [user |-> "U1", ts |-> ts, text |-> Str("interview"),
                 users_info |-> [ok |-> TRUE, user |-> user]]
    IN  CASE variant = "full" -> full
          [] variant = "no_profile" ->
                [full EXCEPT !.users_info =
                              [ok |-> TRUE, user |-> [real_name |-> Str("Test Sender")]]]
          [] variant = "unknown_user" -> [full EXCEPT !.users_info = [ok |-> FALSE]]
          [] variant = "no_text" ->
                [user |-> "U1", ts |-> ts, users_info |-> [ok |-> TRUE, user |-> user]]
          [] variant = "bot" -> full @@ [subtype |-> "bot_message"]
          [] variant = "no_user" -> [ts |-> ts, text |-> Str("joined")]
          [] variant = "no_ts" ->
                [user |-> "U1", text |-> Str("status"), users_info |-> [ok |-> TRUE, user |-> user]]
          [] variant = "bad_ts" -> [full EXCEPT !.ts = "pending"]

SlackVariants ==
    {"full", "no_profile", "unknown_user", "no_text", "bot", "no_user", "no_ts",
     "bad_ts"}

SlackChannel(vs) ==
    [id |-> "D1", history |-> "ok",
     messages |-> [k \in 1..Len(vs) |->
                      SlackMessage("167335200" \o ToStr(k) \o ".000100", vs[k])]]

SlackWorkspaces ==
    {[list |-> "ok", channels |-> <<SlackChannel(vs)>>] : vs \in ListsOf(SlackVariants)}
      \cup {[list |-> "raise", channels |-> <<>>],
            [list |-> "ok", channels |-> <<>>],
            [list |-> "ok", channels |-> <<[name |-> "orphan", history |-> "ok",
                                            messages |-> <<>>]>>],
            [list |-> "ok", channels |-> <<SlackChannel(<<"full">>),
                                           [id |-> "D2", history |-> "raise",
                                            messages |-> <<>>]>>]}

\* a message of the history of a DM channel
DiscordMessage(id, variant) ==
    [id |-> id, author_id |-> 7, author_name |-> "tester",
     created_iso |-> "2023-01-10T12:00:00",
     from_bot |-> (variant = "own"),
     content |-> IF variant = "interview" THEN "interview" ELSE "hello",
     created_at |-> "1673352000.0"]

DiscordGuilds ==
    {[start |-> "ok",
      channels |-> <<[id |-> 5, dm |-> TRUE,
                      history |-> [k \in 1..Len(vs) |-> DiscordMessage(k, vs[k])]]>>] :
         vs \in ListsOf({"interview", "hello", "own"})}
      \cup {[start |-> "raise", channels |-> <<>>],
            [start |-> "ok", channels |-> <<[id |-> 6, dm |-> FALSE,
                                             history |-> <<DiscordMessage(1, "hello")>>]>>]}

NoFetch == [op |-> "none", env |-> <<>>, res |-> Fetched(<<>>, FALSE, FALSE)]

----------------------------------------------------------------------------
(* The spreadsheet behind GoogleSheetsStorage (gspread) *)

MessagesHeader ==
    <<"ID", "Source", "Sender Name", "Sender Email", "Timestamp", "Subject",
      "Preview", "Intent", "Processed", "Link">>

InterviewsHeader ==
    <<"ID", "Message ID", "Candidate Name", "Email", "Scheduled Date", "Status",
      "Calendar Link", "Notes">>

StatsHeader ==
    <<"Date", "Emails", "LinkedIn", "Handshake", "Other", "Total",
      "Interview Requests">>

required_worksheets == <<"Messages", "Interviews", "Stats">>

HeadersOf(name) ==
    CASE name = "Messages" -> MessagesHeader
      [] name = "Interviews" -> InterviewsHeader
      [] name = "Stats" -> StatsHeader

\* sheet.add_worksheet(title=name, ...): a new, blank worksheet
add_worksheet(b, name) ==
    [t \in DOMAIN b \cup {name} |-> IF t = name THEN <<>> ELSE b[t]]

\* worksheet.append_row(row): the row goes below the last row of the sheet
append_row(b, name, row) == [b EXCEPT ![name] = Append(@, row)]

\* worksheet.col_values(c): the cells of column c, top to bottom
col_values(rows, c) == [k \in 1..Len(rows) |-> rows[k][c]]

\* worksheet.update_cell(r, c, v)
update_cell(b, name, r, c, v) == [b EXCEPT ![name][r][c] = v]

\* Python's x in list
InList(x, s) == \E k \in 1..Len(s) : s[k] = x

\* list.index(x) + 1: the 1-based position of the first occurrence
IndexOf(x, s) == CHOOSE k \in 1..Len(s) : s[k] = x /\ \A j \in 1..(k - 1) : s[j] # x

NoFail == [op |-> "none", ws |-> ""]

\* the API call of the constructor that raises, if any: opening the
\* spreadsheet, or writing the header row of a worksheet just added
CtorFails ==
    {NoFail, [op |-> "open", ws |-> ""],
     [op |-> "append_row", ws |-> "Messages"],
     [op |-> "append_row", ws |-> "Stats"]}

\* GoogleSheetsStorage._ensure_worksheets_exist, from the k-th required
\* worksheet on; existing is the list of titles read at the start
RECURSIVE ensure_worksheets_exist(_, _, _, _)
ensure_worksheets_exist(b, existing, k, fail) ==
    IF k > Len(required_worksheets) THEN [book |-> b, raised |-> FALSE]
    ELSE LET name == required_worksheets[k]
         IN  IF name \in existing
             THEN ensure_worksheets_exist(b, existing, k + 1, fail)
             ELSE IF fail = [op |-> "add_worksheet", ws |-> name]
             THEN [book |-> b, raised |-> TRUE]
             ELSE IF fail = [op |-> "append_row", ws |-> name]
             THEN [book |-> add_worksheet(b, name), raised |-> TRUE]
             ELSE ensure_worksheets_exist(
                      append_row(add_worksheet(b, name), name, HeadersOf(name)),
                      existing, k + 1, fail)

\* GoogleSheetsStorage.__init__: sheet_id_set = GOOGLE_SHEET_ID is set
GoogleSheetsStorageInit(b, sheet_id_set, fail) ==
    IF ~sheet_id_set \/ fail.op = "open"
    THEN [sheet_ok |-> FALSE, book |-> b]
    ELSE LET e == ensure_worksheets_exist(b, DOMAIN b, 1, fail)
         IN  [sheet_ok |-> ~e.raised, book |-> e.book]

----------------------------------------------------------------------------
(* GoogleSheetsStorage.store_message *)

\* length of the content preview
PreviewLen == 100

content_preview(content) ==
    IF Len(content) > PreviewLen
    THEN SubSeq(content, 1, PreviewLen) \o "..."
    ELSE content

\* datetime.fromtimestamp(int(ts) / 1000).strftime("%Y-%m-%d %H:%M:%S") for
\* the numeric timestamps of the model's messages (UTC)
format_timestamp(ts) ==
    IF ts.kind \in {"int", "float"}
    THEN LET whole == BeforeFirst(ts.val, ".")
         IN  IF Len(whole) = 10 /\ SubSeq(whole, 1, 7) = "1673352"
             THEN "1970-01-20 08:49:12"
             ELSE "1970-01-01 00:00:00"
    ELSE ts.val

\* the cell gspread writes for a value: None leaves the cell empty
Cell(v) == IF v.kind = "none" THEN "" ELSE v.val

\* message.get(key, default) as a cell of the row
CellOf(m, key, default) == IF key \in DOMAIN m THEN Cell(m[key]) ELSE default

\* row_data with the Processed cell set
MessageRow_marked(m) ==
    <<m.id, m.source, CellOf(m, "sender_name", ""), CellOf(m, "sender_email", ""),
      IF "timestamp" \in DOMAIN m THEN format_timestamp(m.timestamp) ELSE "",
      IF "subject" \in DOMAIN m THEN m.subject ELSE "",
      content_preview(m.content.val),
      IF "intent" \in DOMAIN m THEN m.intent ELSE "unknown", "true", "">>

\* row_data
MessageRow(m) ==
    <<m.id, m.source, CellOf(m, "sender_name", ""), CellOf(m, "sender_email", ""),
      IF "timestamp" \in DOMAIN m THEN format_timestamp(m.timestamp) ELSE "",
      IF "subject" \in DOMAIN m THEN m.subject ELSE "",
      content_preview(m.content.val),
      IF "intent" \in DOMAIN m THEN m.intent ELSE "unknown", "false", "">>

\* existing_ids = messages_sheet.col_values(1)[1:]
ExistingIds(rows) ==
    LET ids == col_values(rows, 1) IN SubSeq(ids, 2, Len(ids))

\* the column of Stats a source is counted in
source_column(source) ==
    CASE source \in {"gmail", "outlook"} -> 2
      [] source = "linkedin" -> 3
      [] source = "handshake" -> 4
      [] OTHER -> 5

\* new_row with the source counted but Total left at 0
NewStatsRow_total_unset(source, today) ==
    [[k \in 1..7 |-> 0] EXCEPT ![1] = today, ![source_column(source)] = 1]

\* new_row of _update_stats
NewStatsRow(source, today) ==
    [[k \in 1..7 |-> 0] EXCEPT ![1] = today, ![6] = 1, ![source_column(source)] = 1]

\* _update_stats, its reads: the row of today (0 when there is none) and
\* that row's cells
StatsRead(b, today) ==
    LET date_column == col_values(b["Stats"], 1)
    IN  IF InList(today, date_column)
        THEN [row_index |-> IndexOf(today, date_column),
              row_data |-> b["Stats"][IndexOf(today, date_column)]]
        ELSE [row_index |-> 0, row_data |-> <<>>]

\* _update_stats, its writes, from what it read
StatsWrite(b, source, today, rd) ==
    IF rd.row_index # 0
    THEN LET c == source_column(source)
             b1 == IF Len(rd.row_data) >= c
                   THEN update_cell(b, "Stats", rd.row_index, c, rd.row_data[c] + 1)
                   ELSE b
         IN  IF Len(rd.row_data) >= 6
             THEN update_cell(b1, "Stats", rd.row_index, 6, rd.row_data[6] + 1)
             ELSE b1
    ELSE append_row(b, "Stats", NewStatsRow(source, today))

\* GoogleSheetsStorage._update_stats: every exception is caught and logged
update_stats(b, source, today, api) ==
    IF api = "stats" \/ "Stats" \notin DOMAIN b THEN b
    ELSE StatsWrite(b, source, today, StatsRead(b, today))

\* what a store_message call leaves behind; found: the existence check
\* found the id among existing_ids
Stored(b, ret, raised, found) ==
    [book |-> b, ret |-> ret, raised |-> raised, found |-> found]

\* the try block of store_message; api names the gspread call that raises.
\* A message without the key id, content or source raises KeyError, a
\* content that is None TypeError
store_message_try(b, m, today, api) ==
    IF api = "read" \/ "Messages" \notin DOMAIN b THEN Stored(b, FALSE, TRUE, FALSE)
    ELSE IF "id" \notin DOMAIN m THEN Stored(b, FALSE, TRUE, FALSE)
    ELSE IF InList(m.id, ExistingIds(b["Messages"])) THEN Stored(b, TRUE, FALSE, TRUE)
    ELSE IF "content" \notin DOMAIN m \/ m.content.kind # "str"
    THEN Stored(b, FALSE, TRUE, FALSE)
    ELSE IF "source" \notin DOMAIN m \/ api = "append"
    THEN Stored(b, FALSE, TRUE, FALSE)
    ELSE Stored(update_stats(append_row(b, "Messages", MessageRow(m)),
                             m.source, today, api),
                TRUE, FALSE, FALSE)

\* store_message without its except clause
store_message_uncaught(ok, b, m, today, api) ==
    IF ~ok THEN Stored(b, FALSE, FALSE, FALSE)
    ELSE store_message_try(b, m, today, api)

\* GoogleSheetsStorage.store_message
store_message(ok, b, m, today, api) ==
    IF ~ok THEN Stored(b, FALSE, FALSE, FALSE)
    ELSE LET t == store_message_try(b, m, today, api)
         IN  IF t.raised THEN Stored(t.book, FALSE, FALSE, t.found) ELSE t

----------------------------------------------------------------------------
(* GoogleSheetsStorage.mark_as_processed *)

\* the updates of mark_as_processed once row_index is known; api names the
\* gspread call that raises
mark_row(b, row_index, intent, api) ==
    IF api = "flag" THEN b
    ELSE LET b1 == update_cell(b, "Messages", row_index, 9, "true")
         IN  IF Falsy(intent) \/ api = "intent" THEN b1
             ELSE update_cell(b1, "Messages", row_index, 8, intent.val)

\* GoogleSheetsStorage.mark_as_processed: the spreadsheet it leaves; every
\* exception is caught and logged, nothing is returned
mark_as_processed(ok, b, message_id, intent, api) ==
    IF ~ok \/ api = "read" \/ "Messages" \notin DOMAIN b THEN b
    ELSE LET id_column == col_values(b["Messages"], 1)
         IN  IF InList(message_id, id_column)
             THEN mark_row(b, IndexOf(message_id, id_column), intent, api)
             ELSE b

----------------------------------------------------------------------------
(* GoogleSheetsStorage.get_messages *)
(* A cell read back is held as the value the sheet shows, whatever Python  *)
(* type gspread gives it                                                   *)

\* dict(zip(keys, row)): a later column of the same key wins
ZipRecord(keys, row) ==
    [key \in {keys[c] : c \in 1..Len(keys)} |->
        row[CHOOSE c \in 1..Len(keys) :
                keys[c] = key /\ \A e \in 1..Len(keys) : keys[e] = key => e <= c]]

\* worksheet.get_all_records(): row 1 gives the keys, each row below it a
\* record. unique_headers: the installed gspread raises when two cells of
\* row 1 are equal; older releases do not
get_all_records(rows, unique_headers) ==
    IF Len(rows) = 0 THEN Val(<<>>)
    ELSE IF unique_headers
            /\ \E c, e \in 1..Len(rows[1]) : c # e /\ rows[1][c] = rows[1][e]
    THEN Raise
    ELSE Val([k \in 1..(Len(rows) - 1) |-> ZipRecord(rows[1], rows[k + 1])])

\* record.get(key, default)
RecordGet(record, key, default) == IF key \in DOMAIN record THEN record[key] ELSE default

\* the message get_messages builds from a record
record_message(record) ==
    [id |-> RecordGet(record, "ID", ""),
     source |-> RecordGet(record, "Source", ""),
     sender_name |-> RecordGet(record, "Sender Name", ""),
     sender_email |-> RecordGet(record, "Sender Email", ""),
     timestamp |-> RecordGet(record, "Timestamp", ""),
     subject |-> RecordGet(record, "Subject", ""),
     content |-> RecordGet(record, "Preview", ""),
     intent |-> RecordGet(record, "Intent", "unknown"),
     processed |-> (RecordGet(record, "Processed", "false") = "true")]

\* GoogleSheetsStorage.get_messages(source); source is None or a str
get_messages(ok, b, source, api, unique_headers) ==
    IF ~ok \/ api = "read" \/ "Messages" \notin DOMAIN b THEN <<>>
    ELSE LET all_records == get_all_records(b["Messages"], unique_headers)
         IN  IF all_records.raised THEN <<>>
             ELSE LET messages == [k \in 1..Len(all_records.val) |->
                                      record_message(all_records.val[k])]
                  IN  SelectSeq(messages,
                                LAMBDA m : source.kind = "none" \/ m.source = source.val)

----------------------------------------------------------------------------
(* Inputs of the storage *)

Ids == {"msg1", "msg2"}

StoredIntents == {"interview_request", "other"}

Dates == <<"2023-01-10", "2023-01-11">>

\* a message as the connector of its source builds it, classified
Message(id, source, intent) ==
    [id |-> id, source |-> source,
     sender_name |-> [kind |-> "str", val |-> "Test Sender"],
     sender_email |-> [kind |-> "str", val |-> "sender@example.com"],
     timestamp |-> IF source = "slack"
                   THEN [kind |-> "float", val |-> "1673352000.0"]
                   ELSE [kind |-> "str", val |-> "1673352000000"],
     subject |-> "Test Subject",
     content |-> [kind |-> "str", val |-> "This is a test message."],
     intent |-> intent]

\* ids are unique within a source: each id belongs to one source
SourceOf(id) == IF id = "msg1" THEN "gmail" ELSE "slack"

\* a LinkedIn message whose messageContent was null in the agent's output
NullContentMessage ==
    [Message("msg3", "linkedin", "unknown") EXCEPT !.content = None]

Messages ==
    {Message(i, SourceOf(i), n) : i \in Ids, n \in StoredIntents}
        \cup {NullContentMessage}

Apis == {"ok", "read", "append", "stats"}

\* is there a row of Messages whose ID cell is id
IdPresent(b, id) ==
    "Messages" \in DOMAIN b /\ InList(id, col_values(b["Messages"], 1))

\* the spreadsheet before the first run: new, or with blank tabs made by hand
InitialBooks ==
    {<<>>, [t \in {"Messages", "Interviews", "Stats"} |-> <<>>]}

NoMessage == Message("", "", "")

\* present: the id was in column ID of Messages when the call began;
\* changed: the call changed some cell of the spreadsheet; raised: it
\* raised; found: its existence check found the id
NoSCall == [op |-> "none", msg |-> NoMessage, api |-> "ok", ret |-> FALSE,
            present |-> FALSE, changed |-> FALSE, raised |-> FALSE,
            found |-> FALSE]

----------------------------------------------------------------------------
(* main(): one batch run *)

\* the connectors in the order main fetches from them
Sources == <<"email", "linkedin", "handshake", "slack", "discord">>

\* the lists concatenated with Slack ahead of Handshake
combine_messages_swapped(fetched) ==
    fetched["email"] \o fetched["linkedin"] \o fetched["slack"]
        \o fetched["handshake"] \o fetched["discord"]

\* all_messages of main: the concatenation of the five fetched lists
combine_messages(fetched) ==
    fetched["email"] \o fetched["linkedin"] \o fetched["handshake"]
        \o fetched["slack"] \o fetched["discord"]

\* CalendlyScheduler.get_scheduling_link
get_scheduling_link == "https://calendly.com/fake/interview"

\* EmailConnector.send_reply: delivered, when the Gmail API accepted the
\* message; mail = "raise" when the send request raises
send_reply(email_type, to_email, mail) ==
    IF email_type = "gmail"
    THEN [ret |-> mail = "ok", raised |-> FALSE]
    ELSE [ret |-> FALSE, raised |-> FALSE]

\* a call main made for a message, as it appears in the log of the run
Event(op, id, label, ok, to) ==
    [op |-> op, id |-> id, label |-> label, ok |-> ok, to |-> to]

\* the loop body with a reply only for a message the store call appended
store_and_route_new_only(intent, ok, b, today, email_type, message, api, mail) ==
    LET classified == message @@ [intent |-> intent]
        s == store_message(ok, b, classified, today, api)
        stored == <<Event("classify", message.id, intent, TRUE, None),
                    Event("store", message.id, intent, s.ret, None)>>
    IN  IF s.raised THEN [book |-> s.book, events |-> stored, raised |-> TRUE]
        ELSE IF intent = "interview_request" /\ s.ret /\ ~s.found
        THEN LET r == send_reply(email_type, message.sender_email, mail)
             IN  [book |-> s.book,
                  events |-> Append(stored, Event("reply", message.id, intent, r.ret,
                                                  message.sender_email)),
                  raised |-> r.raised]
        ELSE [book |-> s.book, events |-> stored, raised |-> FALSE]

\* the loop body with a store call whose failure ends the run
store_and_route_stops(intent, ok, b, today, email_type, message, api, mail) ==
    LET classified == message @@ [intent |-> intent]
        s == store_message(ok, b, classified, today, api)
        stored == <<Event("classify", message.id, intent, TRUE, None),
                    Event("store", message.id, intent, s.ret, None)>>
    IN  IF s.raised \/ ~s.ret
        THEN [book |-> s.book, events |-> stored, raised |-> TRUE]
        ELSE IF intent = "interview_request"
        THEN LET r == send_reply(email_type, message.sender_email, mail)
             IN  [book |-> s.book,
                  events |-> Append(stored, Event("reply", message.id, intent, r.ret,
                                                  message.sender_email)),
                  raised |-> r.raised]
        ELSE [book |-> s.book, events |-> stored, raised |-> FALSE]

\* the body of the for loop of main for one message, after the classifier
\* has returned intent; api and mail name what the spreadsheet API and the
\* mail API do meanwhile
store_and_route(intent, ok, b, today, email_type, message, api, mail) ==
    LET classified == message @@ [intent |-> intent]
        s == store_message(ok, b, classified, today, api)
        stored == <<Event("classify", message.id, intent, TRUE, None),
                    Event("store", message.id, intent, s.ret, None)>>
    IN  IF s.raised THEN [book |-> s.book, events |-> stored, raised |-> TRUE]
        ELSE IF intent = "interview_request"
        THEN LET r == send_reply(email_type, message.sender_email, mail)
             IN  [book |-> s.book,
                  events |-> Append(stored, Event("reply", message.id, intent, r.ret,
                                                  message.sender_email)),
                  raised |-> r.raised]
        ELSE [book |-> s.book, events |-> stored, raised |-> FALSE]

----------------------------------------------------------------------------
(* NLPProcessor.extract_entities / analyze_sentiment *)
(* A polarity is held in hundredths: 10 stands for 0.1                     *)

\* the threshold 0.1 of is_positive and is_negative, in hundredths
PolarityThreshold == 10

\* self.basic_nlp(text): raises when the model is None (the constructor
\* failed), when the text is not a str and when spaCy fails on the text
basic_nlp(p, arg, doc) ==
    IF ~p.basic_nlp \/ arg.kind # "str" \/ doc.parse = "raise" THEN Raise
    ELSE Val(doc)

\* the for loop of extract_entities over doc.ents, from entity k on
RECURSIVE group_entities(_, _, _)
group_entities(ents, k, entities) ==
    IF k > Len(ents) THEN entities
    ELSE LET label == ents[k].label_
             seen == IF label \in DOMAIN entities THEN entities[label] ELSE <<>>
         IN  group_entities(ents, k + 1,
                 [l \in DOMAIN entities \cup {label} |->
                     IF l = label THEN Append(seen, ents[k].text) ELSE entities[l]])

\* the try block of extract_entities
extract_entities_try(p, arg, doc) ==
    LET d == basic_nlp(p, arg, doc)
    IN  IF d.raised THEN [raised |-> TRUE, ret |-> <<>>]
        ELSE [raised |-> FALSE, ret |-> group_entities(d.val.ents, 1, <<>>)]

\* extract_entities without its except clause
extract_entities_uncaught(p, arg, doc) == extract_entities_try(p, arg, doc)

\* NLPProcessor.extract_entities
extract_entities(p, arg, doc) ==
    LET t == extract_entities_try(p, arg, doc)
    IN  IF t.raised THEN [raised |-> FALSE, ret |-> <<>>] ELSE t

Sentiment(polarity, is_positive, is_negative) ==
    [polarity |-> polarity, is_positive |-> is_positive, is_negative |-> is_negative]

\* the try block of analyze_sentiment; getattr(doc._, "polarity", 0.0) gives
\* 0.0 when no extension polarity is registered, and comparing None with a
\* float raises TypeError
analyze_sentiment_try(p, arg, doc) ==
    LET d == basic_nlp(p, arg, doc)
    IN  IF d.raised THEN [raised |-> TRUE, ret |-> Sentiment(0, FALSE, FALSE)]
        ELSE LET polarity == IF d.val.polarity.kind = "unset" THEN 0
                             ELSE d.val.polarity.val
             IN  IF d.val.polarity.kind = "none"
                 THEN [raised |-> TRUE, ret |-> Sentiment(0, FALSE, FALSE)]
                 ELSE [raised |-> FALSE,
                       ret |-> Sentiment(polarity, polarity > PolarityThreshold,
                                         polarity < -PolarityThreshold)]

\* NLPProcessor.analyze_sentiment
analyze_sentiment(p, arg, doc) ==
    LET t == analyze_sentiment_try(p, arg, doc)
    IN  IF t.raised THEN [raised |-> FALSE, ret |-> Sentiment(0, FALSE, FALSE)]
        ELSE t

\* the entities spaCy may find in a text
Ents ==
    {[label_ |-> "PERSON", text |-> "John Smith"],
     [label_ |-> "ORG", text |-> "Google"],
     [label_ |-> "PERSON", text |-> "Ada"]}

\* polarities the extension may attach, in hundredths
Polarities == {-100, -11, -10, 0, 10, 11, 100}

\* what spaCy makes of a text
Docs ==
    {[parse |-> "ok", ents |-> e, polarity |-> q] :
        e \in ListsOf(Ents),
        q \in {[kind |-> "unset", val |-> 0], [kind |-> "none", val |-> 0]}
                \cup {[kind |-> "float", val |-> v] : v \in Polarities}}
      \cup {[parse |-> "raise", ents |-> <<>>, polarity |-> [kind |-> "unset", val |-> 0]]}

NoDoc == [parse |-> "unused", ents |-> <<>>, polarity |-> [kind |-> "unset", val |-> 0]]

NoHCall == [op |-> "none", arg |-> None, doc |-> NoDoc, entities |-> <<>>,
            sentiment |-> Sentiment(0, FALSE, FALSE), raised |-> FALSE]

----------------------------------------------------------------------------
(* automation/selenium_scripts/utils.py: retry_operation *)

\* a behaviour of operation lists what at most MaxRetries successive calls
\* of it do
MaxRetries == 3

\* what one call of operation does: it returns a value or raises an
\* exception
CallOutcomes ==
    {[raised |-> FALSE, val |-> "success"], [raised |-> TRUE, val |-> "ValueError"],
     [raised |-> TRUE, val |-> "TimeoutException"]}

Operations == [1..MaxRetries -> CallOutcomes]

\* the for loop of retry_operation from attempt on (0-based) and the code
\* below it; last_exception = None when no call has raised. calls counts
\* the calls of operation, slept the seconds of time.sleep
RECURSIVE retry_loop(_, _, _, _, _, _)
retry_loop(operation, max_retries, retry_delay, attempt, last_exception, slept) ==
    IF attempt >= max_retries
    THEN IF last_exception.kind # "none"
         THEN [raised |-> TRUE, ret |-> last_exception, calls |-> attempt,
               slept |-> slept]
         ELSE [raised |-> FALSE, ret |-> None, calls |-> attempt, slept |-> slept]
    ELSE IF operation[attempt + 1].raised
    THEN retry_loop(operation, max_retries, retry_delay, attempt + 1,
                    Str(operation[attempt + 1].val),
                    IF attempt < max_retries - 1 THEN slept + retry_delay ELSE slept)
    ELSE [raised |-> FALSE, ret |-> Str(operation[attempt + 1].val),
          calls |-> attempt + 1, slept |-> slept]

\* retry_operation giving up after the first call
retry_operation_once(operation, max_retries, retry_delay) ==
    retry_loop(operation, IF max_retries > 1 THEN 1 ELSE max_retries, retry_delay, 0,
               None, 0)

\* retry_operation(operation, max_retries, retry_delay)
retry_operation(operation, max_retries, retry_delay) ==
    retry_loop(operation, max_retries, retry_delay, 0, None, 0)

----------------------------------------------------------------------------
(* GoogleCalendarScheduler.get_available_slots *)
(* Times are counted in quarters of an hour from midnight of the day of    *)
(* the call, as the clock labelled UTC by the code shows them              *)

QuartersPerDay == 96

\* replace(hour=8, ...) and replace(hour=18, ...)
DayOpens == 32

DayCloses == 72

\* timedelta(minutes=30), the step between slot starts
SlotStep == 2

\* the UTC offsets a busy time may be written with, in quarters; a time
\* without offset is naive
Offsets == ("Z" :> 0) @@ ("+00:00" :> 0) @@ ("+02:00" :> 8)

\* datetime.fromisoformat(text.replace("Z", "+00:00")) of a busy time, as
\* the instant it names; aware = FALSE for a text without offset
fromisoformat(time) ==
    IF time.tz \in DOMAIN Offsets
    THEN [aware |-> TRUE, at |-> time.clock - Offsets[time.tz]]
    ELSE [aware |-> FALSE, at |-> time.clock]

\* the slot test taking a slot that starts no later than a busy period as
\* clear of it
RECURSIVE is_free_by_start(_, _, _, _)
is_free_by_start(slot_start, slot_end, busy_periods, k) ==
    IF k > Len(busy_periods) THEN Val(TRUE)
    ELSE IF ~Has(busy_periods[k], "start") \/ ~Has(busy_periods[k], "end") THEN Raise
    ELSE LET busy_start == fromisoformat(busy_periods[k].start)
             busy_end == fromisoformat(busy_periods[k].end)
         IN  IF ~busy_start.aware THEN Raise
             ELSE IF slot_start <= busy_start.at THEN
                      is_free_by_start(slot_start, slot_end, busy_periods, k + 1)
             ELSE IF ~busy_end.aware THEN Raise
             ELSE IF slot_start >= busy_end.at THEN
                      is_free_by_start(slot_start, slot_end, busy_periods, k + 1)
             ELSE Val(FALSE)

\* the for loop over busy_periods from period k on: raised when a period
\* lacks a key or holds a naive time, which cannot be compared with the
\* aware slot times
RECURSIVE is_free(_, _, _, _)
is_free(slot_start, slot_end, busy_periods, k) ==
    IF k > Len(busy_periods) THEN Val(TRUE)
    ELSE IF ~Has(busy_periods[k], "start") \/ ~Has(busy_periods[k], "end") THEN Raise
    ELSE LET busy_start == fromisoformat(busy_periods[k].start)
             busy_end == fromisoformat(busy_periods[k].end)
         IN  IF ~busy_start.aware THEN Raise
             ELSE IF slot_end <= busy_start.at THEN
                      is_free(slot_start, slot_end, busy_periods, k + 1)
             ELSE IF ~busy_end.aware THEN Raise
             ELSE IF slot_start >= busy_end.at THEN
                      is_free(slot_start, slot_end, busy_periods, k + 1)
             ELSE Val(FALSE)

\* the inner while loop: the slots of one day from slot_start on
RECURSIVE day_slots(_, _, _, _, _)
day_slots(slot_start, day_end, slot_duration, busy_periods, all_slots) ==
    IF slot_start + slot_duration > day_end THEN Val(all_slots)
    ELSE LET free == is_free(slot_start, slot_start + slot_duration, busy_periods, 1)
         IN  IF free.raised THEN Raise
             ELSE day_slots(slot_start + SlotStep, day_end, slot_duration, busy_periods,
                            IF free.val
                            THEN Append(all_slots, [start |-> slot_start,
                                                    end |-> slot_start + slot_duration])
                            ELSE all_slots)

\* the outer while loop over the days, from day d on (0 = today)
RECURSIVE days_loop(_, _, _, _, _, _)
days_loop(d, days_forward, now, slot_duration, busy_periods, all_slots) ==
    IF d > days_forward THEN Val(all_slots)
    ELSE LET day_start == d * QuartersPerDay + DayOpens
             day_end == d * QuartersPerDay + DayCloses
         IN  IF day_end < now
             THEN days_loop(d + 1, days_forward, now, slot_duration, busy_periods,
                            all_slots)
             ELSE LET r == day_slots(IF day_start < now THEN now ELSE day_start,
                                     day_end, slot_duration, busy_periods, all_slots)
                  IN  IF r.raised THEN Raise
                      ELSE days_loop(d + 1, days_forward, now, slot_duration,
                                     busy_periods, r.val)

\* GoogleCalendarScheduler.get_available_slots: service, self.service is
\* not None; now, datetime.now(); slot_duration, duration_minutes in
\* quarters; freebusy, what the free/busy query answers
get_available_slots(service, now, days_forward, slot_duration, freebusy) ==
    IF ~service \/ freebusy.query = "raise" THEN <<>>
    ELSE LET r == days_loop(0, days_forward, now, slot_duration, freebusy.busy, <<>>)
         IN  IF r.raised THEN <<>> ELSE r.val

\* the free/busy query answers with at most MaxBusy busy periods
MaxBusy == 2

BusyTime(clock, tz) == [clock |-> clock, tz |-> tz]

\* busy periods of today and tomorrow, in UTC, with an offset, one without
\* an offset and one without its end
BusyPeriods ==
    {[start |-> BusyTime(36, "Z"), end |-> BusyTime(40, "Z")],
     [start |-> BusyTime(33, "Z"), end |-> BusyTime(35, "Z")],
     [start |-> BusyTime(76, "+02:00"), end |-> BusyTime(80, "+02:00")],
     [start |-> BusyTime(QuartersPerDay + 60, "+00:00"),
      end |-> BusyTime(QuartersPerDay + 70, "+00:00")],
     [start |-> BusyTime(40, "naive"), end |-> BusyTime(44, "naive")],
     [start |-> BusyTime(50, "Z")]}

FreeBusyAnswers ==
    {[query |-> "ok", busy |-> b] :
        b \in UNION {[1..n -> BusyPeriods] : n \in 0..MaxBusy}}
      \cup {[query |-> "raise", busy |-> <<>>]}

----------------------------------------------------------------------------
(* The parts of the program a specification leaves unused *)

SourceSet == {Sources[k] : k \in 1..Len(Sources)}

NoMain ==
    [pc |-> "none", email_type |-> "", k |-> 1,
     fetched |-> [s \in SourceSet |-> <<>>], failed |-> {},
     all_messages |-> <<>>, i |-> 0, calls |-> <<>>, faults |-> 0,
     replied |-> {}]

\* no connector is fetching, main is not running, no message is being
\* marked, the analysis helpers are not in use
FetchIdle == fx = NoFetch

MainIdle == mn = NoMain

MarkIdle == prev = <<>>

HelperIdle == hcall = NoHCall

\* no retry_operation, calendar, Calendly or crontab call has been made
UtilIdle == rt = <<>> /\ gcal = <<>> /\ cly = <<>> /\ crontab = <<>>

AuxIdle == FetchIdle /\ MainIdle /\ MarkIdle /\ HelperIdle /\ UtilIdle

----------------------------------------------------------------------------
(* The classifier as a state machine: a caller makes one call at a time *)

ClassifierInit ==
    /\ nlp \in {NLPProcessorInit(s, e, a) : s \in BOOLEAN, e \in BOOLEAN, a \in BOOLEAN}
    /\ patterns = InitialPatterns
    /\ pc = "idle"
    /\ call = NoCall
    /\ result = NoResult
    /\ first = NoFirst

\* the classifier is not in use
ClassifierIdle ==
    /\ nlp = NLPProcessorInit(TRUE, FALSE, FALSE)
    /\ patterns = InitialPatterns
    /\ pc = "idle"
    /\ call = NoCall
    /\ result = NoResult
    /\ first = NoFirst

\* the storage is not in use
StorageIdle ==
    /\ book = <<>>
    /\ sheet_ok = FALSE
    /\ day = 1
    /\ scall = NoSCall

\* no batch runs overlap
CronIdle == run = <<>>

\* does classify consult spaCy / the LLM backend for this argument
UsesEnv(p, arg) == ~Falsy(arg) /\ p.llm_enabled = "True" /\ p.llm_nlp

\* message_classifier.classify(text)
Classify ==
    /\ pc = "idle"
    /\ \E arg \in Args :
          \E env \in (IF UsesEnv(nlp, arg) THEN Envs ELSE {NoEnv}) :
             /\ call' = [op |-> "classify", arg |-> arg, env |-> env]
             /\ result' = classify(nlp, patterns, arg, env)
    /\ pc' = "returned"
    /\ UNCHANGED <<yvars, nlp, patterns, first, svars, run, xvars>>

\* a direct call message_classifier._classify_with_rules(text)
ClassifyWithRules ==
    /\ pc = "idle"
    /\ \E arg \in RuleArgs :
          LET r == rules_call(patterns, arg)
          IN  /\ call' = [op |-> "rules", arg |-> arg, env |-> NoEnv]
              /\ result' = [NoResult EXCEPT !.ret = r.ret, !.raised = r.raised,
                                            !.scores = r.scores, !.rule_calls = 1]
              /\ patterns' = rules_patterns_after(patterns, arg)
              /\ first' = IF first.set THEN [first EXCEPT !.repeated = TRUE]
                          ELSE [set |-> TRUE, arg |-> arg, ret |-> r.ret,
                                raised |-> r.raised, repeated |-> FALSE]
    /\ pc' = "returned"
    /\ UNCHANGED <<yvars, nlp, svars, run, xvars>>

\* the caller takes the returned label and goes on
Continue ==
    /\ pc = "returned"
    /\ pc' = "idle"
    /\ call' = NoCall
    /\ result' = NoResult
    /\ UNCHANGED <<yvars, nlp, patterns, first, svars, run, xvars>>

ClassifierNext == Classify \/ Continue

ClassifyInit == ClassifierInit /\ StorageIdle /\ CronIdle /\ AuxIdle

SpecClassify == ClassifyInit /\ [][ClassifierNext]_vars

RulesInit == ClassifierIdle /\ StorageIdle /\ CronIdle /\ AuxIdle

RulesNext == ClassifyWithRules \/ Continue

SpecRules == RulesInit /\ [][RulesNext]_vars

----------------------------------------------------------------------------
(* The storage as a state machine: one storage object, calls one at a time *)

StoreInit ==
    /\ ClassifierIdle
    /\ CronIdle
    /\ AuxIdle
    /\ book \in InitialBooks
    /\ sheet_ok = FALSE
    /\ day = 1
    /\ scall = NoSCall

\* storage = GoogleSheetsStorage(), at the start of a batch run
Construct ==
    \E sheet_id_set \in BOOLEAN, fail \in CtorFails :
        LET s == GoogleSheetsStorageInit(book, sheet_id_set, fail)
        IN  /\ book' = s.book
            /\ sheet_ok' = s.sheet_ok
            /\ scall' = [NoSCall EXCEPT !.op = "init", !.ret = s.sheet_ok,
                                        !.changed = (s.book # book)]
            /\ UNCHANGED <<yvars, day, cvars, run, xvars>>

\* storage.store_message(message)
StoreMessage ==
    \E m \in Messages, api \in Apis :
        LET s == store_message(sheet_ok, book, m, Dates[day], api)
        IN  /\ book' = s.book
            /\ scall' = [op |-> "store", msg |-> m, api |-> api, ret |-> s.ret,
                         present |-> "id" \in DOMAIN m /\ IdPresent(book, m.id),
                         changed |-> (s.book # book), raised |-> s.raised,
                         found |-> s.found]
            /\ UNCHANGED <<yvars, sheet_ok, day, cvars, run, xvars>>

\* midnight passes
Tick ==
    /\ day < Len(Dates)
    /\ day' = day + 1
    /\ UNCHANGED <<yvars, book, sheet_ok, scall, cvars, run, xvars>>

StoreNext == Construct \/ StoreMessage \/ Tick

SpecStore == StoreInit /\ [][StoreNext]_vars

----------------------------------------------------------------------------
(* The storage while the spreadsheet service answers every call *)

\* storage = GoogleSheetsStorage(), no gspread call raising
ConstructUnfailing ==
    \E sheet_id_set \in BOOLEAN :
        LET s == GoogleSheetsStorageInit(book, sheet_id_set, NoFail)
        IN  /\ book' = s.book
            /\ sheet_ok' = s.sheet_ok
            /\ scall' = [NoSCall EXCEPT !.op = "init", !.ret = s.sheet_ok,
                                        !.changed = (s.book # book)]
            /\ UNCHANGED <<yvars, day, cvars, run, xvars>>

\* storage.store_message(message), no gspread call raising
StoreMessageUnfailing ==
    \E m \in Messages :
        LET s == store_message(sheet_ok, book, m, Dates[day], "ok")
        IN  /\ book' = s.book
            /\ scall' = [op |-> "store", msg |-> m, api |-> "ok", ret |-> s.ret,
                         present |-> "id" \in DOMAIN m /\ IdPresent(book, m.id),
                         changed |-> (s.book # book), raised |-> s.raised,
                         found |-> s.found]
            /\ UNCHANGED <<yvars, sheet_ok, day, cvars, run, xvars>>

UnfailingNext == ConstructUnfailing \/ StoreMessageUnfailing \/ Tick

SpecStats == StoreInit /\ [][UnfailingNext]_vars

----------------------------------------------------------------------------
(* Two batch runs launched by cron against the same spreadsheet: each run   *)
(* stores the messages it fetched, one gspread call at a time               *)

Runs == {"run1", "run2"}

\* the unread messages both runs fetched, classified
Batch == <<Message("msg1", "gmail", "interview_request"),
           Message("msg2", "slack", "other")>>

NoRead == [row_index |-> 0, row_data |-> <<>>]

CronInit ==
    /\ ClassifierIdle
    /\ AuxIdle
    /\ book = GoogleSheetsStorageInit(<<>>, TRUE, NoFail).book
    /\ sheet_ok = TRUE
    /\ day = 1
    /\ scall = NoSCall
    /\ run = [p \in Runs |-> [pc |-> "check", i |-> 1, rd |-> NoRead]]

\* the run goes on to its next message, or ends after the last one
Advance(r) ==
    [pc |-> IF r.i + 1 > Len(Batch) THEN "done" ELSE "check",
     i |-> r.i + 1, rd |-> NoRead]

\* store_message up to the existence check: the read of column ID
RunCheck(p) ==
    /\ run[p].pc = "check"
    /\ run' = [run EXCEPT ![p] =
                  IF InList(Batch[run[p].i].id, ExistingIds(book["Messages"]))
                  THEN Advance(@)
                  ELSE [@ EXCEPT !.pc = "append"]]
    /\ UNCHANGED <<yvars, book, sheet_ok, day, scall, cvars, xvars>>

\* messages_sheet.append_row(row_data)
RunAppend(p) ==
    /\ run[p].pc = "append"
    /\ book' = append_row(book, "Messages", MessageRow(Batch[run[p].i]))
    /\ run' = [run EXCEPT ![p].pc = "stats_read"]
    /\ UNCHANGED <<yvars, sheet_ok, day, scall, cvars, xvars>>

\* _update_stats: col_values and row_values
RunStatsRead(p) ==
    /\ run[p].pc = "stats_read"
    /\ run' = [run EXCEPT ![p].pc = "stats_write", ![p].rd = StatsRead(book, Dates[day])]
    /\ UNCHANGED <<yvars, book, sheet_ok, day, scall, cvars, xvars>>

\* _update_stats: update_cell or append_row; store_message returns True
RunStatsWrite(p) ==
    /\ run[p].pc = "stats_write"
    /\ book' = StatsWrite(book, Batch[run[p].i].source, Dates[day], run[p].rd)
    /\ run' = [run EXCEPT ![p] = Advance(@)]
    /\ UNCHANGED <<yvars, sheet_ok, day, scall, cvars, xvars>>

CronNext ==
    \E p \in Runs : RunCheck(p) \/ RunAppend(p) \/ RunStatsRead(p) \/ RunStatsWrite(p)

SpecCron == CronInit /\ [][CronNext]_vars

----------------------------------------------------------------------------
(* mark_as_processed as a state machine: calls one at a time on a          *)
(* spreadsheet that earlier runs have filled                               *)

\* the messages earlier runs stored
MarkMessages == {Message("msg1", "gmail", "other"),
                 Message("msg2", "slack", "interview_request")}

\* store_message for each message of the list, in order
RECURSIVE store_all(_, _, _)
store_all(b, ms, k) ==
    IF k > Len(ms) THEN b
    ELSE store_all(store_message(TRUE, b, ms[k], Dates[1], "ok").book, ms, k + 1)

\* the spreadsheets a constructed storage can hold after at most two
\* store_message calls
MarkBooks ==
    {store_all(GoogleSheetsStorageInit(b0, TRUE, NoFail).book, ms, 1) :
        b0 \in InitialBooks, ms \in UNION {[1..n -> MarkMessages] : n \in 0..2}}

\* the ids mark_as_processed is called with: stored ones, one never stored,
\* and the text of the ID column's header cell
MarkIds == {"msg1", "msg2", "msg9", "ID"}

\* the intent argument: left out, empty, or a label
MarkIntents == {None, Str(""), Str("follow_up")}

MarkApis == {"ok", "read", "flag", "intent"}

MarkInit ==
    /\ ClassifierIdle
    /\ CronIdle
    /\ FetchIdle /\ MainIdle /\ HelperIdle /\ UtilIdle
    /\ MarkIdle
    /\ sheet_ok \in BOOLEAN
    /\ book \in MarkBooks
    /\ day = 1
    /\ scall = NoSCall

\* storage.mark_as_processed(message_id, intent)
MarkAsProcessed ==
    /\ scall = NoSCall
    /\ \E message_id \in MarkIds, intent \in MarkIntents, api \in MarkApis :
          LET b == mark_as_processed(sheet_ok, book, message_id, intent, api)
          IN  /\ book' = b
              /\ prev' = book
              /\ scall' = [NoSCall EXCEPT !.op = "mark",
                                          !.msg = [id |-> message_id, intent |-> intent],
                                          !.api = api,
                                          !.changed = (b # book)]
    /\ UNCHANGED <<yvars, sheet_ok, day, cvars, run, fx, mn, hcall>>

\* the caller goes on
MarkReturn ==
    /\ scall # NoSCall
    /\ scall' = NoSCall
    /\ prev' = <<>>
    /\ UNCHANGED <<yvars, book, sheet_ok, day, cvars, run, fx, mn, hcall>>

MarkNext == MarkAsProcessed \/ MarkReturn

SpecMark == MarkInit /\ [][MarkNext]_vars

----------------------------------------------------------------------------
(* The analysis helpers of NLPProcessor as a state machine: a caller makes *)
(* one call at a time on a processor whose constructor has returned        *)

\* the text argument: None, an object that is not a str, or a str
HelperArgs == {None, NonStr, Str(""), Str("interview")}

\* what self.basic_nlp(text) meets: spaCy is reached only with a loaded
\* model and a str
HelperDocs(p, arg) == IF p.basic_nlp /\ arg.kind = "str" THEN Docs ELSE {NoDoc}

HelperInit ==
    /\ ClassifierInit
    /\ StorageIdle
    /\ CronIdle
    /\ FetchIdle /\ MainIdle /\ MarkIdle /\ UtilIdle
    /\ hcall = NoHCall

\* nlp_processor.extract_entities(text)
ExtractEntities ==
    /\ hcall = NoHCall
    /\ \E arg \in HelperArgs :
          \E doc \in HelperDocs(nlp, arg) :
             LET r == extract_entities(nlp, arg, doc)
             IN  hcall' = [NoHCall EXCEPT !.op = "entities", !.arg = arg, !.doc = doc,
                                          !.entities = r.ret, !.raised = r.raised]
    /\ UNCHANGED <<yvars, cvars, svars, run, fx, mn, prev>>

\* nlp_processor.analyze_sentiment(text)
AnalyzeSentiment ==
    /\ hcall = NoHCall
    /\ \E arg \in HelperArgs :
          \E doc \in HelperDocs(nlp, arg) :
             LET r == analyze_sentiment(nlp, arg, doc)
             IN  hcall' = [NoHCall EXCEPT !.op = "sentiment", !.arg = arg, !.doc = doc,
                                          !.sentiment = r.ret, !.raised = r.raised]
    /\ UNCHANGED <<yvars, cvars, svars, run, fx, mn, prev>>

\* the caller takes the result and goes on
HelperReturn ==
    /\ hcall # NoHCall
    /\ hcall' = NoHCall
    /\ UNCHANGED <<yvars, cvars, svars, run, fx, mn, prev>>

HelperNext == ExtractEntities \/ AnalyzeSentiment \/ HelperReturn

SpecHelper == HelperInit /\ [][HelperNext]_vars

----------------------------------------------------------------------------
(* scheduling/calendly.py: CalendlyScheduler.get_event_types *)

MaxCalls == 3

\* a Python value held in event_types: None, a list, or another object
NoList == [kind |-> "none", val |-> <<>>]
List(l) == [kind |-> "list", val |-> l]
OtherObject == [kind |-> "dict", val |-> <<>>]

EventTypeLists == {<<>>, <<"interview">>, <<"interview", "follow-up">>}

\* what requests.get does on one call: it raises, or answers with a status;
\* json is the decoded body of a 200 answer: not decodable ("raise"), not a
\* dict ("array"), a dict without the key data ("nodata"), or a dict whose
\* data is the value given
Responses ==
    {[kind |-> "raise", status |-> 0, json |-> "none", data |-> NoList]}
        \cup {[kind |-> "answer", status |-> c, json |-> "none", data |-> NoList] :
                  c \in {401, 500}}
        \cup {[kind |-> "answer", status |-> 200, json |-> j, data |-> NoList] :
                  j \in {"raise", "array", "nodata"}}
        \cup {[kind |-> "answer", status |-> 200, json |-> "dict", data |-> d] :
                  d \in {List(l) : l \in EventTypeLists} \cup {NoList, OtherObject}}

\* no call of requests.get has been answered yet
NoResponse == [kind |-> "none", status |-> 0, json |-> "none", data |-> NoList]

\* CalendlyScheduler.__init__
CalendlyScheduler(api_key, user) ==
    [api_key |-> api_key, user |-> user, event_types |-> NoList,
     requests |-> 0, calls |-> 0, ret |-> NoList, response |-> NoResponse]

\* CalendlyScheduler.get_event_types; requests counts the calls of
\* requests.get, ret is the value returned
get_event_types(self, response) ==
    IF ~self.api_key \/ ~self.user
    THEN [self EXCEPT !.ret = List(<<>>), !.calls = @ + 1]
    ELSE IF self.event_types.kind = "list"
    THEN [self EXCEPT !.ret = self.event_types, !.calls = @ + 1]
    ELSE IF response.kind = "raise" \/ (response.status = 200 /\ response.json = "raise")
    THEN [self EXCEPT !.event_types = List(<<>>), !.ret = List(<<>>),
                      !.requests = @ + 1, !.calls = @ + 1]
    ELSE IF response.status = 200
    THEN LET event_types_data == IF response.json = "dict" THEN response.data
                                 ELSE List(<<>>)
         IN  [self EXCEPT !.event_types = event_types_data, !.ret = event_types_data,
                          !.requests = @ + 1, !.calls = @ + 1]
    ELSE [self EXCEPT !.event_types = List(<<>>), !.ret = List(<<>>),
                      !.requests = @ + 1, !.calls = @ + 1]

----------------------------------------------------------------------------
(* One CalendlyScheduler and the get_event_types calls made on it *)

CalendlyInit ==
    /\ ClassifierIdle
    /\ StorageIdle
    /\ CronIdle
    /\ FetchIdle /\ MainIdle /\ MarkIdle /\ HelperIdle
    /\ rt = <<>> /\ gcal = <<>> /\ crontab = <<>>
    /\ cly \in {CalendlyScheduler(api_key, user) : api_key \in BOOLEAN, user \in BOOLEAN}

\* calendly_scheduler.get_event_types(); response is what the network holds
\* ready for this call, whether the call asks for it or not
GetEventTypes ==
    /\ cly.calls < MaxCalls
    /\ \E response \in Responses :
          cly' = [get_event_types(cly, response) EXCEPT !.response = response]
    /\ UNCHANGED <<cvars, svars, run, xvars, rt, gcal, crontab>>

CalendlyNext == GetEventTypes

SpecCalendly == CalendlyInit /\ [][CalendlyNext]_vars

----------------------------------------------------------------------------
(* scripts/schedule_job.py: schedule_job and remove_job *)

MaxJobs == 3

JobComment == "communication-centralizer"

\* the job schedule_job creates, with the slices its frequency sets
NewJob(frequency) ==
    [command |-> "main.py", comment |-> JobComment,
     slices |-> IF frequency = "hourly" THEN "0 * * * *"
                ELSE IF frequency = "daily" THEN "0 6 * * *"
                ELSE IF frequency = "custom" THEN "custom"
                ELSE "* * * * *"]

\* a job of the user's that the script did not write
OtherJob == [command |-> "backup.sh", comment |-> "backup", slices |-> "0 3 * * *"]

\* cron.find_comment(comment): the jobs with exactly this comment, taken
\* from a copy of the job list
find_comment(crons, comment) == SelectSeq(crons, LAMBDA job : job.comment = comment)

\* for job in cron.find_comment(comment): cron.remove(job)
remove_found(crons, comment) == SelectSeq(crons, LAMBDA job : job.comment # comment)

\* what the surroundings do during one call: CronTab(user=True) reads the
\* crontab or raises; the custom arguments are fine, rejected by setall
\* (an Exception), or rejected by parse_args (SystemExit); cron.write()
\* installs the crontab or raises
CronEnvs == [open : {"ok", "raise"}, custom : {"ok", "invalid", "exit"},
             write : {"ok", "raise"}]

\* a call's outcome: the crontab as written, the value returned, and
\* whether an exception left the function
CronResult(written, ret, raised) == [written |-> written, ret |-> ret, raised |-> raised]

\* schedule_job that removes no existing job
schedule_job_keeping(written, frequency, env) ==
    IF env.open = "raise" THEN CronResult(written, FALSE, FALSE)
    ELSE LET crons == Append(written, NewJob(frequency))
         IN  IF frequency = "custom" /\ env.custom = "exit"
             THEN CronResult(written, FALSE, TRUE)
             ELSE IF frequency = "custom" /\ env.custom = "invalid"
             THEN CronResult(written, FALSE, FALSE)
             ELSE IF frequency \notin {"hourly", "daily", "custom"}
             THEN CronResult(written, FALSE, FALSE)
             ELSE IF env.write = "raise" THEN CronResult(written, FALSE, FALSE)
             ELSE CronResult(crons, TRUE, FALSE)

\* schedule_job(frequency); written is the user's crontab as installed
schedule_job(written, frequency, env) ==
    IF env.open = "raise" THEN CronResult(written, FALSE, FALSE)
    ELSE LET crons == Append(remove_found(written, JobComment), NewJob(frequency))
         IN  IF frequency = "custom" /\ env.custom = "exit"
             THEN CronResult(written, FALSE, TRUE)
             ELSE IF frequency = "custom" /\ env.custom = "invalid"
             THEN CronResult(written, FALSE, FALSE)
             ELSE IF frequency \notin {"hourly", "daily", "custom"}
             THEN CronResult(written, FALSE, FALSE)
             ELSE IF env.write = "raise" THEN CronResult(written, FALSE, FALSE)
             ELSE CronResult(crons, TRUE, FALSE)

\* remove_job()
remove_job(written, env) ==
    IF env.open = "raise" THEN CronResult(written, FALSE, FALSE)
    ELSE IF env.write = "raise" THEN CronResult(written, FALSE, FALSE)
    ELSE CronResult(remove_found(written, JobComment), TRUE, FALSE)

----------------------------------------------------------------------------
(* The user's crontab and the calls of the script on it *)

Frequencies == {"hourly", "daily", "custom", "weekly"}

RECURSIVE JobLists(_)
JobLists(n) ==
    IF n = 0 THEN {<<>>}
    ELSE JobLists(n - 1)
            \cup {Append(l, j) : l \in JobLists(n - 1),
                                 j \in {NewJob("hourly"), NewJob("custom"), OtherJob}}

\* before holds the crontab as it was when the call began; settled names
\* the last call that returned True
CrontabInit ==
    /\ ClassifierIdle
    /\ StorageIdle
    /\ CronIdle
    /\ FetchIdle /\ MainIdle /\ MarkIdle /\ HelperIdle
    /\ rt = <<>> /\ gcal = <<>> /\ cly = <<>>
    /\ \E written \in JobLists(MaxJobs) :
          crontab = [written |-> written, before |-> written, op |-> "none",
                     frequency |-> "", ret |-> FALSE, raised |-> FALSE,
                     settled |-> "none"]

Settle(settled, op, res) == IF res.ret THEN op ELSE settled

\* schedule_job(frequency)
ScheduleJob ==
    /\ crontab.op = "none"
    /\ \E frequency \in Frequencies, env \in CronEnvs :
          LET res == schedule_job(crontab.written, frequency, env)
          IN  crontab' = [written |-> res.written, before |-> crontab.written,
                          op |-> "schedule", frequency |-> frequency,
                          ret |-> res.ret, raised |-> res.raised,
                          settled |-> Settle(crontab.settled, "schedule", res)]
    /\ UNCHANGED <<cvars, svars, run, xvars, rt, gcal, cly>>

\* remove_job()
RemoveJob ==
    /\ crontab.op = "none"
    /\ \E env \in CronEnvs :
          LET res == remove_job(crontab.written, env)
          IN  crontab' = [written |-> res.written, before |-> crontab.written,
                          op |-> "remove", frequency |-> "",
                          ret |-> res.ret, raised |-> res.raised,
                          settled |-> Settle(crontab.settled, "remove", res)]
    /\ UNCHANGED <<cvars, svars, run, xvars, rt, gcal, cly>>

\* the script ends; the crontab stays as written
CrontabReturn ==
    /\ crontab.op # "none"
    /\ crontab' = [crontab EXCEPT !.op = "none", !.before = crontab.written,
                                  !.frequency = "", !.ret = FALSE, !.raised = FALSE]
    /\ UNCHANGED <<cvars, svars, run, xvars, rt, gcal, cly>>

CrontabNext == ScheduleJob \/ RemoveJob \/ CrontabReturn

SpecCrontab == CrontabInit /\ [][CrontabNext]_vars

----------------------------------------------------------------------------
(* retry_operation as a state machine: one call at a time *)

RetryInit ==
    /\ ClassifierIdle
    /\ StorageIdle
    /\ CronIdle
    /\ AuxIdle

\* retry_operation(operation, max_retries, retry_delay)
RetryOperation ==
    /\ rt = <<>>
    /\ \E operation \in Operations, max_retries \in 0..MaxRetries,
          retry_delay \in {0, 1} :
          rt' = [operation |-> operation, max_retries |-> max_retries,
                 retry_delay |-> retry_delay,
                 res |-> retry_operation(operation, max_retries, retry_delay)]
    /\ UNCHANGED <<cvars, svars, run, xvars, gcal, cly, crontab>>

\* the caller takes the result, or the exception, and goes on
RetryReturn ==
    /\ rt # <<>>
    /\ rt' = <<>>
    /\ UNCHANGED <<cvars, svars, run, xvars, gcal, cly, crontab>>

RetryNext == RetryOperation \/ RetryReturn

SpecRetry == RetryInit /\ [][RetryNext]_vars

----------------------------------------------------------------------------
(* get_available_slots as a state machine: one call at a time *)

SlotsInit ==
    /\ ClassifierIdle
    /\ StorageIdle
    /\ CronIdle
    /\ AuxIdle

\* google_calendar.get_available_slots(days_forward, duration_minutes)
GetAvailableSlots ==
    /\ gcal = <<>>
    /\ \E freebusy \in FreeBusyAnswers :
          \E service \in (IF freebusy.query = "raise" THEN BOOLEAN ELSE {TRUE}),
             now \in {30, 37, 69, 80}, days_forward \in {0, 1}, slot_duration \in {2, 4} :
             gcal' = [service |-> service, now |-> now, days_forward |-> days_forward,
                      slot_duration |-> slot_duration, freebusy |-> freebusy,
                      ret |-> get_available_slots(service, now, days_forward,
                                                  slot_duration, freebusy)]
    /\ UNCHANGED <<cvars, svars, run, xvars, rt, cly, crontab>>

\* the caller takes the slots and goes on
SlotsReturn ==
    /\ gcal # <<>>
    /\ gcal' = <<>>
    /\ UNCHANGED <<cvars, svars, run, xvars, rt, cly, crontab>>

SlotsNext == GetAvailableSlots \/ SlotsReturn

SpecSlots == SlotsInit /\ [][SlotsNext]_vars

----------------------------------------------------------------------------
(* get_messages as a state machine: calls one at a time on a spreadsheet   *)
(* that earlier runs have filled                                           *)

ReadInit ==
    /\ ClassifierIdle
    /\ CronIdle
    /\ AuxIdle
    /\ sheet_ok \in BOOLEAN
    /\ book \in MarkBooks
    /\ day = 1
    /\ scall = NoSCall

\* storage.get_messages(source)
GetMessages ==
    /\ scall = NoSCall
    /\ \E source \in {None, Str("gmail"), Str("slack"), Str("linkedin")},
          api \in {"ok", "read"}, unique_headers \in BOOLEAN :
          scall' = [op |-> "get", source |-> source, api |-> api,
                    unique_headers |-> unique_headers,
                    ret |-> get_messages(sheet_ok, book, source, api, unique_headers)]
    /\ UNCHANGED <<yvars, book, sheet_ok, day, cvars, run, xvars>>

\* the caller takes the list and goes on
ReadReturn ==
    /\ scall # NoSCall
    /\ scall' = NoSCall
    /\ UNCHANGED <<yvars, book, sheet_ok, day, cvars, run, xvars>>

ReadNext == GetMessages \/ ReadReturn

SpecRead == ReadInit /\ [][ReadNext]_vars

----------------------------------------------------------------------------
(* The connectors as a state machine: one fetch_messages call at a time *)

\* email_connector.fetch_messages()
FetchEmail ==
    /\ fx = NoFetch
    /\ \E inbox \in GmailInboxes :
          \E email_type \in (IF inbox.list = "raise" THEN {"gmail", "outlook"}
                             ELSE {"gmail"}) :
             fx' = [op |-> "email",
                    env |-> [email_type |-> email_type, inbox |-> inbox],
                    res |-> email_fetch_messages(email_type, inbox)]
    /\ UNCHANGED <<yvars, cvars, svars, run, mn, prev, hcall>>

\* linkedin_connector.fetch_messages()
FetchLinkedIn ==
    /\ fx = NoFetch
    /\ \E agent \in LinkedInAgents :
          \E credentials \in (IF agent.launch = "raise" THEN BOOLEAN ELSE {TRUE}) :
             fx' = [op |-> "linkedin",
                    env |-> [credentials |-> credentials, agent |-> agent],
                    res |-> linkedin_fetch_messages(credentials, agent)]
    /\ UNCHANGED <<yvars, cvars, svars, run, mn, prev, hcall>>

\* handshake_connector.fetch_messages()
FetchHandshake ==
    /\ fx = NoFetch
    /\ \E automation_type \in {"selenium", "puppeteer"} :
          \E site \in (IF automation_type = "puppeteer" THEN HandshakeNodes
                       ELSE HandshakeBrowsers) :
             \E credentials \in (IF site \in {HandshakeNodeDown, HandshakeDriverDown}
                                 THEN BOOLEAN ELSE {TRUE}) :
                fx' = [op |-> "handshake",
                       env |-> [credentials |-> credentials,
                                automation_type |-> automation_type, site |-> site],
                       res |-> handshake_fetch_messages(credentials, automation_type,
                                                        site)]
    /\ UNCHANGED <<yvars, cvars, svars, run, mn, prev, hcall>>

\* slack_connector.fetch_messages()
FetchSlack ==
    /\ fx = NoFetch
    /\ \E workspace \in SlackWorkspaces :
          \E token \in (IF workspace.list = "raise" THEN BOOLEAN ELSE {TRUE}) :
             fx' = [op |-> "slack",
                    env |-> [token |-> token, workspace |-> workspace],
                    res |-> slack_fetch_messages(token, workspace)]
    /\ UNCHANGED <<yvars, cvars, svars, run, mn, prev, hcall>>

\* discord_connector.fetch_messages()
FetchDiscord ==
    /\ fx = NoFetch
    /\ \E guild \in DiscordGuilds :
          \E token \in (IF guild.start = "raise" THEN BOOLEAN ELSE {TRUE}) :
             fx' = [op |-> "discord",
                    env |-> [token |-> token, guild |-> guild],
                    res |-> discord_fetch_messages(token, guild)]
    /\ UNCHANGED <<yvars, cvars, svars, run, mn, prev, hcall>>

\* the caller takes the list and goes on
FetchReturn ==
    /\ fx # NoFetch
    /\ fx' = NoFetch
    /\ UNCHANGED <<yvars, cvars, svars, run, mn, prev, hcall>>

FetchNext ==
    \/ FetchEmail \/ FetchLinkedIn \/ FetchHandshake \/ FetchSlack \/ FetchDiscord
    \/ FetchReturn

FetchInit == ClassifierIdle /\ StorageIdle /\ CronIdle /\ AuxIdle

SpecFetch == FetchInit /\ [][FetchNext]_vars

----------------------------------------------------------------------------
(* One batch run of main() as a state machine *)

\* at most MaxFaults calls of the message loop meet a failing API
MaxFaults == 1

\* the NLP processors main may construct: LLM disabled, spaCy model missing,
\* LLM enabled
MainNLPs ==
    {NLPProcessorInit(TRUE, FALSE, FALSE), NLPProcessorInit(FALSE, FALSE, FALSE),
     NLPProcessorInit(TRUE, TRUE, TRUE)}

\* the payloads the connectors meet during a run of main
MainInboxes ==
    {GmailInbox(<<"full">>), GmailInbox(<<"bare", "full">>),
     GmailInbox(<<"full", "no_date">>)}

MainAgents ==
    {[launch |-> "ok", status |-> "finished", output |-> "ok",
      messages |-> <<LinkedInMessage("l1", v)>>] : v \in {"no_id", "null_content"}}
      \cup {[launch |-> "ok", status |-> "finished", output |-> "raise",
             messages |-> <<>>]}

MainBrowsers ==
    {[driver |-> "ok", login |-> "ok", quit |-> q,
      threads |-> <<HandshakeThread(v)>>] :
         v \in {"interview", "stale"}, q \in {"ok", "raise"}}

MainWorkspaces ==
    {[list |-> "ok", channels |-> <<SlackChannel(<<"no_profile">>)>>],
     [list |-> "raise", channels |-> <<>>]}

MainGuilds ==
    {[start |-> "ok",
      channels |-> <<[id |-> 5, dm |-> TRUE,
                      history |-> <<DiscordMessage(1, v)>>]>>] :
         v \in {"interview", "hello"}}
      \cup {[start |-> "raise", channels |-> <<>>]}

\* what the fetch of a source may give main back
MainFetches(source, email_type) ==
    CASE source = "email" ->
            {email_fetch_messages(email_type, inbox) : inbox \in MainInboxes}
      [] source = "linkedin" ->
            {linkedin_fetch_messages(TRUE, agent) : agent \in MainAgents}
      [] source = "handshake" ->
            {handshake_fetch_messages(TRUE, "selenium", browser) :
                browser \in MainBrowsers}
      [] source = "slack" ->
            {slack_fetch_messages(TRUE, workspace) : workspace \in MainWorkspaces}
      [] source = "discord" ->
            {discord_fetch_messages(TRUE, guild) : guild \in MainGuilds}

\* what the LLM backend may do during one classify call of main
MainEnvs(p, arg) ==
    IF UsesEnv(p, arg)
    THEN {[basic |-> "ok", llm |-> [kind |-> "raise", cats |-> <<>>]],
          [basic |-> "ok",
           llm |-> [kind |-> "cats",
                    cats |-> [x \in LLMLabelSet |-> IF x = "job_offer" THEN 1 ELSE 0]]]}
    ELSE {NoEnv}

\* number of failing API calls among those named
Faults(env, api, mail) ==
    (IF env.llm.kind = "raise" THEN 1 ELSE 0) + (IF api # "ok" THEN 1 ELSE 0)
        + (IF mail # "ok" THEN 1 ELSE 0)

\* main() up to the construction of the connectors; the storage and the NLP
\* processor are built first, EmailConnector() may raise
MainStart ==
    /\ mn.pc = "start"
    /\ \E sheet_id_set \in BOOLEAN, p \in MainNLPs,
          email_type \in {"gmail", "outlook", "imap"},
          creds \in {"flow_ok", "token_file", "no_credentials"} :
          LET s == GoogleSheetsStorageInit(book, sheet_id_set, NoFail)
              e == EmailConnectorInit(email_type, creds)
          IN  /\ book' = s.book
              /\ sheet_ok' = s.sheet_ok
              /\ nlp' = p
              /\ mn' = [mn EXCEPT !.pc = IF e.raised THEN "exit1" ELSE "fetch",
                                  !.email_type = email_type,
                                  !.failed = IF e.raised THEN {"email"} ELSE {}]
    /\ UNCHANGED <<yvars, patterns, pc, call, result, first, day, scall, run, fx, prev, hcall>>

\* the fetch_messages call of the next connector; after the last one the
\* lists are combined
MainFetch ==
    /\ mn.pc = "fetch"
    /\ \E r \in MainFetches(Sources[mn.k], mn.email_type) :
          LET source == Sources[mn.k]
              fetched == [mn.fetched EXCEPT ![source] = r.ret]
              all == IF mn.k = Len(Sources) /\ ~r.raised
                     THEN combine_messages(fetched) ELSE <<>>
          IN  mn' = [mn EXCEPT
                        !.pc = IF r.raised THEN "exit1"
                               ELSE IF mn.k < Len(Sources) THEN "fetch"
                               ELSE IF Len(all) = 0 THEN "done"
                               ELSE "process",
                        !.k = IF r.raised THEN @ ELSE @ + 1,
                        !.fetched = fetched,
                        !.failed = IF r.raised \/ r.caught THEN @ \cup {source} ELSE @,
                        !.all_messages = all]
    /\ UNCHANGED <<yvars, cvars, svars, run, fx, prev, hcall>>

\* one pass of the for loop that comes back to a message whose store call
\* returned False
MainProcessRetrying ==
    /\ mn.pc = "process"
    /\ LET message == mn.all_messages[mn.i + 1]
       IN  \E env \in MainEnvs(nlp, message.content) :
              LET intent == classify(nlp, patterns, message.content, env).ret
              IN  \E api \in (IF sheet_ok THEN Apis ELSE {"ok"}),
                     mail \in (IF intent = "interview_request" /\ mn.email_type = "gmail"
                               THEN {"ok", "raise"} ELSE {"ok"}) :
                     /\ mn.faults + Faults(env, api, mail) <= MaxFaults
                     /\ LET r == store_and_route(intent, sheet_ok, book, Dates[day],
                                                 mn.email_type, message, api, mail)
                            again == sheet_ok /\ ~r.events[2].ok
                        IN  /\ book' = r.book
                            /\ mn' = [mn EXCEPT
                                  !.pc = IF r.raised THEN "exit1"
                                         ELSE IF ~again /\ mn.i + 1 = Len(mn.all_messages)
                                         THEN "done"
                                         ELSE "process",
                                  !.i = IF again THEN @ ELSE @ + 1,
                                  !.calls = @ \o r.events,
                                  !.faults = @ + Faults(env, api, mail)]
    /\ UNCHANGED <<yvars, cvars, sheet_ok, day, scall, run, fx, prev, hcall>>

\* one pass of the for loop of main
MainProcess ==
    /\ mn.pc = "process"
    /\ LET message == mn.all_messages[mn.i + 1]
       IN  \E env \in MainEnvs(nlp, message.content) :
              LET intent == classify(nlp, patterns, message.content, env).ret
              IN  \E api \in (IF sheet_ok THEN Apis ELSE {"ok"}),
                     mail \in (IF intent = "interview_request" /\ mn.email_type = "gmail"
                               THEN {"ok", "raise"} ELSE {"ok"}) :
                     /\ mn.faults + Faults(env, api, mail) <= MaxFaults
                     /\ LET r == store_and_route(intent, sheet_ok, book, Dates[day],
                                                 mn.email_type, message, api, mail)
                        IN  /\ book' = r.book
                            /\ mn' = [mn EXCEPT
                                  !.pc = IF r.raised THEN "exit1"
                                         ELSE IF mn.i + 1 = Len(mn.all_messages)
                                         THEN "done"
                                         ELSE "process",
                                  !.i = @ + 1,
                                  !.all_messages[mn.i + 1] =
                                      message @@ [intent |-> intent],
                                  !.calls = @ \o r.events,
                                  !.faults = @ + Faults(env, api, mail)]
    /\ UNCHANGED <<yvars, cvars, sheet_ok, day, scall, run, fx, prev, hcall>>

MainNext == MainStart \/ MainFetch \/ MainProcess

MainInit ==
    /\ ClassifierIdle
    /\ StorageIdle
    /\ CronIdle
    /\ FetchIdle /\ MarkIdle /\ HelperIdle /\ UtilIdle
    /\ mn = [NoMain EXCEPT !.pc = "start"]

SpecMain == MainInit /\ [][MainNext]_vars

----------------------------------------------------------------------------
(* Batch runs one after another against the same spreadsheet *)

\* the next run of main once a run has ended: the storage is constructed
\* again and the connectors return the same messages as before; replied
\* keeps the ids of the messages the runs that have ended called send_reply
\* for
MainRerun ==
    /\ mn.pc = "done"
    /\ Len(mn.all_messages) > 0
    /\ LET s == GoogleSheetsStorageInit(book, sheet_ok, NoFail)
       IN  /\ book' = s.book
           /\ sheet_ok' = s.sheet_ok
    /\ mn' = [mn EXCEPT !.pc = "process", !.i = 0,
                        !.all_messages = combine_messages(mn.fetched),
                        !.calls = <<>>,
                        !.replied = @ \cup {mn.calls[j].id : j \in
                                        {h \in 1..Len(mn.calls) : mn.calls[h].op = "reply"}}]
    /\ UNCHANGED <<yvars, cvars, day, scall, run, fx, prev, hcall>>

BatchesNext == MainStart \/ MainFetch \/ MainProcess \/ MainRerun

SpecBatches == MainInit /\ [][BatchesNext]_vars

----------------------------------------------------------------------------
(* Properties *)

Labels == {"interview_request", "follow_up", "job_offer", "networking", "other",
           "unknown"}

IntentSet == {Intents[k] : k \in 1..Len(Intents)}

\* a classify call has returned
Classified == pc = "returned" /\ call.op = "classify"

\* a classify call on a str has run the rule stage to its end
RuleStageRan == Classified /\ call.arg.kind = "str" /\ result.rule_calls = 1

\* the largest score of the rule stage
MaxScore(scores) ==
    CHOOSE m \in {scores[x] : x \in IntentSet} : \A x \in IntentSet : scores[x] <= m

\* the labels that reach it
Tied(scores) == {x \in IntentSet : scores[x] = MaxScore(scores)}

\* position of a label in the iteration order of the pattern table
OrderOf(x) == CHOOSE k \in 1..Len(Intents) : Intents[k] = x

\* C1: every classify call returns one of the six labels and does not raise,
\* whatever the argument, the state of the NLP processor and the outcome of
\* the LLM and rule stages
C1_Total ==
    Classified => ~result.raised /\ result.ret \in Labels

\* C1 witness: the rule stage raised inside the LLM path and classify
\* returned unknown
C1_Witness ==
    /\ Classified
    /\ call.arg = NonStr
    /\ nlp.llm_enabled = "True" /\ nlp.llm_nlp
    /\ result.rule_calls = 1
    /\ result.ret = "unknown"

\* C2: for a falsy text classify returns unknown and enters neither
\* analyze_text, nor the LLM backend, nor the rule stage
C2_FalsyUnknown ==
    Classified /\ Falsy(call.arg) =>
        /\ result.ret = "unknown"
        /\ result.analyze_calls = 0
        /\ result.llm_calls = 0
        /\ result.rule_calls = 0

\* C2 witness: the empty string classified while the LLM stage is available
C2_Witness ==
    /\ Classified
    /\ call.arg = [kind |-> "str", val |-> ""]
    /\ nlp.llm_enabled = "True" /\ nlp.llm_nlp
    /\ result.ret = "unknown"

\* the LLM stage is unavailable to a call: disabled, model missing, processor
\* initialization failed, or the call raised or gave an empty mapping
LLMUnavailable ==
    \/ nlp.llm_enabled # "True"
    \/ ~nlp.llm_nlp
    \/ ~nlp.basic_nlp
    \/ call.env.basic = "raise"
    \/ call.env.llm.kind = "raise"
    \/ DOMAIN call.env.llm.cats = {}

\* C3: as claimed, for a non-empty text and an unavailable LLM stage,
\* classify returns the label of the rule stage
C3_FallbackToRules ==
    Classified /\ call.arg.kind = "str" /\ call.arg.val # "" /\ LLMUnavailable =>
        result.ret = classify_with_rules(patterns, call.arg.val)

\* C4: when several labels tie for a non-zero maximum, the rule stage
\* returns interview_request if it is tied, else the tied label that comes
\* first in the table's order
C4_TieBreak ==
    RuleStageRan /\ MaxScore(result.scores) > 0
                 /\ Cardinality(Tied(result.scores)) > 1 =>
        IF "interview_request" \in Tied(result.scores)
        THEN result.ret = "interview_request"
        ELSE /\ result.ret \in Tied(result.scores)
             /\ \A x \in Tied(result.scores) : OrderOf(result.ret) <= OrderOf(x)

\* C4 witness: follow_up and job_offer tie at the top without
\* interview_request, and follow_up is returned
C4_Witness ==
    /\ RuleStageRan
    /\ Tied(result.scores) = {"follow_up", "job_offer"}
    /\ MaxScore(result.scores) > 0
    /\ result.ret = "follow_up"

\* the distinct patterns of a label that match the lower-cased text
MatchingPatterns(intent, text) ==
    {patterns[intent][k] : k \in
        {j \in 1..Len(patterns[intent]) : re_search(patterns[intent][j], Lower(text))}}

\* C5: as claimed, the score of a label is the number of its patterns that
\* match, each pattern counting once
C5_ScoreCountsPatterns ==
    RuleStageRan =>
        \A intent \in IntentSet :
            result.scores[intent] = Cardinality(MatchingPatterns(intent, call.arg.val))

\* C6: the rule stage returns other exactly when no pattern matches, and
\* otherwise a label whose score is the maximum
C6_OtherIffNoMatch ==
    RuleStageRan =>
        LET none == \A intent \in IntentSet : MatchingPatterns(intent, call.arg.val) = {}
        IN  /\ (result.ret = "other") <=> none
            /\ ~none => /\ result.ret \in IntentSet
                        /\ result.scores[result.ret] = MaxScore(result.scores)

\* C6 witness: a non-empty text no pattern matches is classified other
C6_Witness ==
    /\ RuleStageRan
    /\ call.arg.val = "hello Meeting"
    /\ result.ret = "other"

RowsWithId(b, id) ==
    IF "Messages" \in DOMAIN b
    THEN Cardinality({k \in 1..Len(b["Messages"]) : b["Messages"][k][1] = id})
    ELSE 0

\* C8: as claimed, whatever the Messages worksheet held at first, it holds
\* at most one row per message id after any sequence of store_message calls
C8_OneRowPerId ==
    \A id \in Ids : RowsWithId(book, id) <= 1

\* C9: as claimed, a store_message call for an id already in Messages, whose
\* read of the sheet succeeds, returns True and changes no cell
C9_PresentIdNoOp ==
    scall.op = "store" /\ sheet_ok /\ scall.present /\ scall.api # "read" =>
        scall.ret /\ ~scall.changed

\* C10: as claimed, also when the existence checks and appends of two runs
\* interleave, no id is written to Messages more than once
C10_OneWritePerId ==
    \A k \in 1..Len(Batch) : RowsWithId(book, Batch[k].id) < 2

----------------------------------------------------------------------------
(* Properties of a batch run of main() *)

\* the messages main has been through, each with its intent
Processed == SubSeq(mn.all_messages, 1, mn.i)

\* main made a call op for the message id
Called(op, id) == \E j \in 1..Len(mn.calls) : mn.calls[j].op = op /\ mn.calls[j].id = id

\* C11: as claimed, a message whose sender_email is the empty string and
\* whose intent is interview_request is stored, no send_reply call is made
\* for it, and the run does not end in an error because of it
C11_ReplySkippedWithoutAddress ==
    \A k \in 1..Len(Processed) :
        LET m == Processed[k]
        IN  m.intent = "interview_request" /\ m.sender_email = Str("") =>
                /\ Called("store", m.id)
                /\ ~Called("reply", m.id)
                /\ mn.pc # "exit1"

\* C12: as claimed, the calls for a message come in the order classify,
\* store, reply, none of them twice, and a reply is sent only after a store
\* call that succeeded
C12_ForwardOnly ==
    \A j \in 1..Len(mn.calls) :
        LET e == mn.calls[j]
        IN  /\ \A h \in 1..(j - 1) : ~(mn.calls[h].op = e.op /\ mn.calls[h].id = e.id)
            /\ e.op = "store" =>
                   j > 1 /\ mn.calls[j - 1].op = "classify" /\ mn.calls[j - 1].id = e.id
            /\ e.op = "reply" =>
                   /\ j > 1 /\ mn.calls[j - 1].op = "store" /\ mn.calls[j - 1].id = e.id
                   /\ mn.calls[j - 1].ok

\* every message of the fetched lists has been classified and stored
AllClassifiedAndStored ==
    \A source \in SourceSet :
        \A k \in 1..Len(mn.fetched[source]) :
            /\ Called("classify", mn.fetched[source][k].id)
            /\ Called("store", mn.fetched[source][k].id)

\* C13: as claimed, when the fetch of a source fails, the source gives no
\* message, the run goes on with the other sources, and at its end every
\* message the other sources gave has been classified and stored
C13_FetchFailureIsolated ==
    mn.failed # {} =>
        /\ \A source \in mn.failed : mn.fetched[source] = <<>>
        /\ mn.pc # "exit1"
        /\ mn.pc = "done" => AllClassifiedAndStored

\* C14: once the loop over the messages has begun the run does not abort,
\* whatever store_message and send_reply return, and at its end every
\* message has been classified, has had its store call, and has had its
\* reply call if it is an interview request with an address
C14_BatchContinues ==
    /\ mn.pc = "exit1" => mn.i = 0 /\ mn.calls = <<>>
    /\ mn.pc = "done" =>
           /\ mn.i = Len(mn.all_messages)
           /\ \A k \in 1..Len(mn.all_messages) :
                  LET m == mn.all_messages[k]
                  IN  /\ Called("classify", m.id)
                      /\ Called("store", m.id)
                      /\ m.intent = "interview_request" /\ m.sender_email.kind = "str"
                               /\ m.sender_email.val # "" => Called("reply", m.id)

\* C14 witness: a run ended in which a store call failed and a store call
\* for a later message succeeded
C14_Witness ==
    /\ mn.pc = "done"
    /\ \E j1, j2 \in 1..Len(mn.calls) :
           /\ j1 < j2
           /\ mn.calls[j1].op = "store" /\ ~mn.calls[j1].ok
           /\ mn.calls[j2].op = "store" /\ mn.calls[j2].ok

\* the fetched lists in the order email, LinkedIn, Handshake, Slack, Discord
FetchOrder ==
    mn.fetched["email"] \o mn.fetched["linkedin"] \o mn.fetched["handshake"]
        \o mn.fetched["slack"] \o mn.fetched["discord"]

\* the ids of the calls op of the run, in the order they were made
IdsOfCalls(op) ==
    LET made == SelectSeq(mn.calls, LAMBDA e : e.op = op)
    IN  [j \in 1..Len(made) |-> made[j].id]

\* position of a message in the fetch order
PlaceOf(id) == CHOOSE k \in 1..Len(FetchOrder) : FetchOrder[k].id = id

\* C15: the messages are processed in source-fetch order, each list in the
\* order its fetch returned it: the store calls follow that order without
\* a gap, and the reply calls follow it too
C15_SourceFetchOrder ==
    mn.pc \in {"process", "done"} =>
        /\ Len(mn.all_messages) = Len(FetchOrder)
        /\ \A k \in 1..Len(FetchOrder) : mn.all_messages[k].id = FetchOrder[k].id
        /\ \A j \in 1..Len(IdsOfCalls("store")) :
               IdsOfCalls("store")[j] = FetchOrder[j].id
        /\ \A j1, j2 \in 1..Len(IdsOfCalls("reply")) :
               j1 < j2 => PlaceOf(IdsOfCalls("reply")[j1]) < PlaceOf(IdsOfCalls("reply")[j2])

\* C15 witness: a run ended that stored two email messages and then the
\* messages of three other sources, and replied to two of them
C15_Witness ==
    /\ mn.pc = "done"
    /\ Len(mn.fetched["email"]) = 2
    /\ Len(IdsOfCalls("store")) >= 5
    /\ Len(IdsOfCalls("reply")) >= 2

\* the loop is at message mn.i: each message before it has had one
\* classify call and one store call, in the order of the sequence, no
\* message has had two replies, and a finished run has been through the
\* whole sequence
OnePassNoRetry ==
    /\ mn.i <= Len(mn.all_messages)
    /\ Len(IdsOfCalls("classify")) = mn.i
    /\ Len(IdsOfCalls("store")) = mn.i
    /\ \A k \in 1..mn.i :
           /\ IdsOfCalls("classify")[k] = mn.all_messages[k].id
           /\ IdsOfCalls("store")[k] = mn.all_messages[k].id
    /\ \A j1, j2 \in 1..Len(IdsOfCalls("reply")) :
           j1 # j2 => IdsOfCalls("reply")[j1] # IdsOfCalls("reply")[j2]
    /\ mn.pc = "done" => mn.i = Len(mn.all_messages)

\* a step of the run: a run that has ended takes none, and a pass of the
\* loop moves on to the next message whatever its calls returned, ending
\* the run after the last one
LoopAdvances ==
    /\ mn.pc \notin {"done", "exit1"}
    /\ mn.pc = "process" =>
           /\ mn'.i = mn.i + 1
           /\ mn'.pc = IF mn'.i = Len(mn.all_messages) THEN "done" ELSE "process"

\* C21: a batch run makes exactly one classify call and one store call for
\* each fetched message, repeats no store or reply call that failed, and
\* ends once the last message of the sequence has been processed
C21_OnePassThenStop == []OnePassNoRetry /\ [][LoopAdvances]_vars

\* C21 witness: a run has ended after a store call that returned False on
\* an initialized sheet, followed by the calls of a later message
C21_Witness ==
    /\ mn.pc = "done" /\ sheet_ok
    /\ \E j \in 1..Len(mn.calls) :
           /\ mn.calls[j].op = "store" /\ ~mn.calls[j].ok
           /\ j < Len(mn.calls)
           /\ mn.calls[j + 1].op = "classify"

----------------------------------------------------------------------------
(* Properties of the connectors' fetch_messages *)

\* the Gmail fetch in progress got its list and every messages().get answer
GmailAnswered ==
    /\ fx.op = "email" /\ fx.env.email_type = "gmail"
    /\ fx.env.inbox.list = "ok"
    /\ \A k \in 1..Len(fx.env.inbox.messages) : fx.env.inbox.messages[k].get = "ok"

\* the Slack fetch in progress got its channels and the history of each
SlackAnswered ==
    /\ fx.op = "slack" /\ fx.env.token
    /\ fx.env.workspace.list = "ok"
    /\ \A c \in 1..Len(fx.env.workspace.channels) :
           /\ Has(fx.env.workspace.channels[c], "id")
           /\ fx.env.workspace.channels[c].history = "ok"

\* the fetch in progress returned a record with this id
Delivered(id) == \E j \in 1..Len(fx.res.ret) : fx.res.ret[j].id = id

\* C16: as claimed, when raw messages of a Gmail or Slack fetch are
\* malformed, only they are dropped: every raw message of the same fetch
\* that normalizes on its own is in the list the fetch returns
C16_OnlyMalformedDropped ==
    /\ GmailAnswered =>
           \A k \in 1..Len(fx.env.inbox.messages) :
               LET m == gmail_process(fx.env.inbox.messages[k])
               IN  ~m.raised => Delivered(m.val.id)
    /\ SlackAnswered =>
           \A c \in 1..Len(fx.env.workspace.channels) :
               LET conversation == fx.env.workspace.channels[c]
               IN  \A k \in 1..Len(conversation.messages) :
                       LET msg == conversation.messages[k]
                           m == slack_process(conversation, msg)
                       IN  /\ Has(msg, "user")
                           /\ ~(Has(msg, "subtype") /\ msg.subtype = "bot_message")
                           /\ ~m.raised
                           => Delivered(m.val.id)

\* the keys of the canonical message record
CanonicalFields ==
    {"id", "source", "sender_name", "sender_email", "timestamp", "subject",
     "content", "raw_data"}

\* every raw message of the fetch in progress has its primary identifier
\* and every request of the fetch was answered
PrimaryIdsPresent ==
    CASE fx.op = "email" ->
            /\ GmailAnswered
            /\ \A k \in 1..Len(fx.env.inbox.messages) :
                   Has(fx.env.inbox.messages[k], "id")
      [] fx.op = "linkedin" ->
            /\ fx.env.credentials
            /\ fx.env.agent.launch = "ok" /\ fx.env.agent.status = "finished"
            /\ fx.env.agent.output = "ok"
      [] fx.op = "handshake" ->
            /\ fx.env.credentials /\ fx.env.automation_type = "puppeteer"
            /\ fx.env.site.run = "ok" /\ fx.env.site.stdout = "json"
      [] fx.op = "slack" ->
            /\ SlackAnswered
            /\ \A c \in 1..Len(fx.env.workspace.channels) :
                   \A k \in 1..Len(fx.env.workspace.channels[c].messages) :
                       Has(fx.env.workspace.channels[c].messages[k], "ts")
      [] fx.op = "discord" -> fx.env.token /\ fx.env.guild.start = "ok"
      [] OTHER -> FALSE

\* C17: as claimed, every record a fetch returns has all the canonical
\* fields, its sender_email and content are strings, never None, and a raw
\* message that has its primary identifier never makes normalization raise
C17_CanonicalRecord ==
    /\ \A j \in 1..Len(fx.res.ret) :
           /\ DOMAIN fx.res.ret[j] = CanonicalFields
           /\ fx.res.ret[j].sender_email.kind = "str"
           /\ fx.res.ret[j].content.kind = "str"
    /\ PrimaryIdsPresent => ~fx.res.raised /\ ~fx.res.caught

----------------------------------------------------------------------------
(* Properties of store_message and mark_as_processed *)

\* the store_message call just made returned True although a step before
\* the Stats update failed
TrueAfterFailedWrite ==
    /\ scall.ret
    /\ \/ ~sheet_ok
       \/ scall.api = "read"
       \/ ~scall.found /\ (scall.api = "append" \/ scall.msg.content.kind # "str")

\* the store_message call just made returned False because the sheet is
\* not initialized or the existence check failed
FalseBeforeWrite == ~scall.ret /\ (~sheet_ok \/ scall.api = "read")

\* C18 as claimed: store_message never raises, returns False when the sheet
\* is not initialized or any step of the write, the Stats update included,
\* fails, and has changed nothing when it returns False because the sheet
\* is not initialized or the existence check failed
C18_FalseOnAnyFailure ==
    scall.op = "store" =>
        /\ ~scall.raised
        /\ ~TrueAfterFailedWrite
        /\ ~(scall.ret /\ ~scall.found /\ scall.api = "stats")
        /\ FalseBeforeWrite => ~scall.changed

\* C18 amended: store_message never raises, returns False when the sheet is
\* not initialized or a step of the write other than the Stats update
\* fails; when only the Stats update fails the row has been appended and
\* True is returned; it has changed nothing when it returns False because
\* the sheet is not initialized or the existence check failed
C18_StoreNeverRaises ==
    scall.op = "store" =>
        /\ ~scall.raised
        /\ ~TrueAfterFailedWrite
        /\ sheet_ok /\ scall.ret /\ ~scall.found /\ scall.api = "stats" =>
               /\ scall.changed
               /\ book["Messages"][Len(book["Messages"])] = MessageRow(scall.msg)
        /\ FalseBeforeWrite => ~scall.changed

\* C18 witness: a call whose Stats update failed has returned True with its
\* row appended below an earlier row of Messages
C18_Witness ==
    /\ scall.op = "store" /\ scall.api = "stats" /\ scall.ret /\ scall.changed
    /\ sheet_ok
    /\ Len(book["Messages"]) > 1

\* the rows of Messages before the call that hold a stored message with
\* this id: every row but the header row
RowsOfMessage(id) ==
    IF "Messages" \notin DOMAIN prev THEN {}
    ELSE {r \in 1..Len(prev["Messages"]) :
             prev["Messages"][r] # MessagesHeader /\ prev["Messages"][r][1] = id}

\* C19: as claimed, mark_as_processed changes no cell, the header row's
\* included, when no stored message has the id; when one has and no call
\* of the API fails, the message's row gets Processed true, gets the
\* intent if one is given, keeps its other cells, and every other row is
\* unchanged
C19_MarkOnlyStoredMessage ==
    scall.op = "mark" =>
        /\ ~scall.raised
        /\ RowsOfMessage(scall.msg.id) = {} => book = prev
        /\ RowsOfMessage(scall.msg.id) # {} /\ sheet_ok /\ scall.api = "ok" =>
               \E r \in RowsOfMessage(scall.msg.id) :
                   /\ DOMAIN book = DOMAIN prev
                   /\ \A t \in DOMAIN book \ {"Messages"} : book[t] = prev[t]
                   /\ Len(book["Messages"]) = Len(prev["Messages"])
                   /\ \A q \in 1..Len(book["Messages"]) :
                          q # r => book["Messages"][q] = prev["Messages"][q]
                   /\ book["Messages"][r][9] = "true"
                   /\ book["Messages"][r][8] =
                          IF Falsy(scall.msg.intent) THEN prev["Messages"][r][8]
                          ELSE scall.msg.intent.val
                   /\ \A c \in (1..10) \ {8, 9} :
                          book["Messages"][r][c] = prev["Messages"][r][c]

----------------------------------------------------------------------------
(* Properties of extract_entities and analyze_sentiment *)

\* self.basic_nlp(text) failed in the call just made: the model is None,
\* the text is not a str, or spaCy raised
ParseFailed ==
    ~nlp.basic_nlp \/ hcall.arg.kind # "str" \/ hcall.doc.parse = "raise"

\* C20: extract_entities and analyze_sentiment never raise; when the parse
\* fails, or the polarity cannot be compared, extract_entities returns the
\* empty mapping and analyze_sentiment the zero sentiment; is_positive and
\* is_negative are never both true
C20_HelpersNeverRaise ==
    /\ hcall.op = "entities" =>
           /\ ~hcall.raised
           /\ ParseFailed => hcall.entities = <<>>
    /\ hcall.op = "sentiment" =>
           /\ ~hcall.raised
           /\ ParseFailed \/ hcall.doc.polarity.kind = "none" =>
                  hcall.sentiment = Sentiment(0, FALSE, FALSE)
           /\ ~(hcall.sentiment.is_positive /\ hcall.sentiment.is_negative)

\* C20 witness: extract_entities has returned the empty mapping for a text
\* on a processor whose spaCy model failed to load
C20_Witness ==
    /\ hcall.op = "entities" /\ hcall.arg = Str("interview")
    /\ ~nlp.basic_nlp
    /\ hcall.entities = <<>> /\ ~hcall.raised

----------------------------------------------------------------------------
(* Properties of retry_operation *)

\* the calls among the first max_retries of the behaviour that do not raise
Successes == {k \in 1..rt.max_retries : ~rt.operation[k].raised}

\* C22: retry_operation makes at most max_retries calls; when one of them
\* does not raise, it stops at the first such call and returns its result;
\* when all max_retries calls raise, it raises the exception of the last
\* one
C22_RetryUntilSuccess ==
    rt # <<>> =>
        /\ rt.res.calls <= rt.max_retries
        /\ Successes # {} =>
               LET k == CHOOSE j \in Successes : \A h \in Successes : j <= h
               IN  /\ rt.res.calls = k
                   /\ ~rt.res.raised
                   /\ rt.res.ret = Str(rt.operation[k].val)
        /\ Successes = {} /\ rt.max_retries >= 1 =>
               /\ rt.res.calls = rt.max_retries
               /\ rt.res.raised
               /\ rt.res.ret = Str(rt.operation[rt.max_retries].val)

\* C22 witness: with max_retries = 3 the first call raised, the second
\* succeeded, and its result came back after two calls
C22_Witness ==
    /\ rt # <<>>
    /\ rt.max_retries = 3
    /\ rt.operation[1].raised /\ ~rt.operation[2].raised
    /\ rt.res.calls = 2 /\ rt.res.ret = Str("success")

----------------------------------------------------------------------------
(* Properties of get_available_slots *)

\* the instant a time of the free/busy answer names
InstantOf(time) == time.clock - Offsets[time.tz]

\* C23: every slot get_available_slots returns overlaps no busy period of
\* the free/busy answer: it ends no later than the period starts or starts
\* no earlier than the period ends
C23_SlotsAvoidBusy ==
    gcal # <<>> =>
        \A j \in 1..Len(gcal.ret) :
            \A k \in 1..Len(gcal.freebusy.busy) :
                \/ gcal.ret[j].end <= InstantOf(gcal.freebusy.busy[k].start)
                \/ gcal.ret[j].start >= InstantOf(gcal.freebusy.busy[k].end)

\* C23 witness: slots came back although the second busy period of the
\* answer, written with an offset, lies inside the opening hours asked for
C23_Witness ==
    /\ gcal # <<>>
    /\ Len(gcal.ret) > 0
    /\ Len(gcal.freebusy.busy) = 2
    /\ gcal.freebusy.busy[2].start.tz = "+02:00"
    /\ gcal.now < InstantOf(gcal.freebusy.busy[2].start)

----------------------------------------------------------------------------
(* Properties of get_messages *)

\* the rows of Messages that hold a stored message, top to bottom
StoredRows == SelectSeq(book["Messages"], LAMBDA row : row # MessagesHeader)

\* the stored record of a row, as get_messages is to return it
RecordOfRow(row) ==
    [id |-> row[1], source |-> row[2], sender_name |-> row[3],
     sender_email |-> row[4], timestamp |-> row[5], subject |-> row[6],
     content |-> row[7], intent |-> row[8], processed |-> (row[9] = "true")]

\* the stored records a call with this source is to return
Expected(source) ==
    LET rows == SelectSeq(StoredRows,
                          LAMBDA row : source.kind = "none" \/ row[2] = source.val)
    IN  [k \in 1..Len(rows) |-> RecordOfRow(rows[k])]

\* the Source values of the stored messages
StoredSources == {StoredRows[k][2] : k \in 1..Len(StoredRows)}

\* C24: as claimed, a get_messages call that reads the sheet returns the
\* stored records of the given source, all of them without a source, in
\* sheet order; and the results for the sources of the sheet together hold
\* as many records as are stored
C24_GetMessagesBySource ==
    scall.op = "get" /\ sheet_ok /\ scall.api = "ok" =>
        /\ scall.ret = Expected(scall.source)
        /\ \A src \in StoredSources :
               get_messages(sheet_ok, book, Str(src), "ok", scall.unique_headers)
                   = Expected(Str(src))

----------------------------------------------------------------------------
(* Properties of the LLM stage of classify *)

\* the LLM backend was called and gave a mapping with at least one label
LLMAnswered ==
    /\ Classified
    /\ result.llm_calls = 1
    /\ call.env.llm.kind = "cats"
    /\ DOMAIN call.env.llm.cats # {}

\* C25: when the LLM stage is available and returns a non-empty mapping,
\* classify returns a label of the mapping whose score is maximal, and the
\* rule stage is not entered
C25_LLMArgmax ==
    LLMAnswered =>
        /\ ~result.raised
        /\ result.ret \in DOMAIN call.env.llm.cats
        /\ \A y \in DOMAIN call.env.llm.cats :
               call.env.llm.cats[y] <= call.env.llm.cats[result.ret]
        /\ result.rule_calls = 0

\* C25 witness: the mapping's scores differ, its top label is not the first
\* one, and it is returned for a text whose rule label is another one
C25_Witness ==
    /\ LLMAnswered
    /\ \E y \in DOMAIN call.env.llm.cats :
           call.env.llm.cats[y] < call.env.llm.cats[result.ret]
    /\ result.ret # TopCat_first_label(call.env.llm.cats)
    /\ call.arg.kind = "str"
    /\ classify_with_rules(patterns, call.arg.val) # result.ret

----------------------------------------------------------------------------
(* Properties of CalendlyScheduler.get_event_types *)

Configured == cly.api_key /\ cly.user

\* C29: as claimed, a configured scheduler makes at most one event-types
\* request: once get_event_types has been called event_types is a list, and
\* a call that finds it set returns it and makes no request
C29_OneRequest ==
    /\ [](Configured => cly.requests <= 1)
    /\ [](Configured /\ cly.calls >= 1 => cly.event_types.kind = "list")
    /\ [][Configured /\ cly.calls >= 1 =>
              cly'.requests = cly.requests /\ cly'.ret = cly.event_types]_vars

----------------------------------------------------------------------------
(* Properties of schedule_job and remove_job *)

\* the jobs of the written crontab that carry the script's comment
OwnJobs == find_comment(crontab.written, JobComment)

\* schedule_job returning True leaves exactly one own job, remove_job
\* returning True none, and an unknown frequency returns False and leaves
\* the written crontab as it was
CallEffects ==
    /\ crontab.op = "schedule" /\ crontab.ret => Len(OwnJobs) = 1
    /\ crontab.op = "remove" /\ crontab.ret => Len(OwnJobs) = 0
    /\ crontab.op = "schedule" /\ crontab.frequency \notin {"hourly", "daily", "custom"} =>
           ~crontab.ret /\ crontab.written = crontab.before

\* C30 as claimed: after any sequence of calls the written crontab holds at
\* most one own job
C30_AtMostOneJob ==
    (crontab.op # "none" => Len(OwnJobs) <= 1) /\ CallEffects

\* C30, amended: once a call has returned True the written crontab holds at
\* most one own job, exactly one while the last such call is a schedule_job
\* and none while it is a remove_job; an unknown frequency returns False
\* and leaves the written crontab unchanged
C30_AtMostOneJobOnceWritten ==
    /\ crontab.settled # "none" => Len(OwnJobs) <= 1
    /\ crontab.settled = "schedule" => Len(OwnJobs) = 1
    /\ crontab.settled = "remove" => Len(OwnJobs) = 0
    /\ CallEffects

\* C30 witness: schedule_job returns True on a crontab that held two own
\* jobs and another job, and leaves one own job and the other job
C30_Witness ==
    /\ crontab.op = "schedule" /\ crontab.ret
    /\ Len(find_comment(crontab.before, JobComment)) = 2
    /\ Len(crontab.before) = 3
    /\ Len(OwnJobs) = 1
    /\ Len(crontab.written) = 2

----------------------------------------------------------------------------
(* Properties of the Stats worksheet *)

\* the rows of a worksheet other than its header row
DataRows(b, name) ==
    IF name \in DOMAIN b
    THEN SelectSeq(b[name], LAMBDA row : row # HeadersOf(name))
    ELSE <<>>

RECURSIVE ColumnSum(_, _)
ColumnSum(rows, c) ==
    IF rows = <<>> THEN 0 ELSE rows[1][c] + ColumnSum(Tail(rows), c)

\* the Stats columns Emails, LinkedIn, Handshake and Other
SourceColumns == 2..5

\* every date row of Stats has Total = Emails + LinkedIn + Handshake + Other
RowTotals ==
    \A k \in 1..Len(DataRows(book, "Stats")) :
        LET row == DataRows(book, "Stats")[k]
        IN  row[6] = row[2] + row[3] + row[4] + row[5]

\* the Totals of Stats add up to the number of message rows of Messages
TotalsCountMessages ==
    ColumnSum(DataRows(book, "Stats"), 6) = Len(DataRows(book, "Messages"))

\* a step that appends a message row adds 1 to Total and to exactly one
\* source column, and every step leaves the other columns as they are
StoredIncrements ==
    LET added(c) == ColumnSum(DataRows(book', "Stats"), c)
                        - ColumnSum(DataRows(book, "Stats"), c)
        appended == Len(DataRows(book', "Messages")) - Len(DataRows(book, "Messages"))
    IN  /\ appended \in {0, 1}
        /\ added(6) = appended
        /\ \A c \in SourceColumns : added(c) \in {0, 1}
        /\ Cardinality({c \in SourceColumns : added(c) = 1}) = appended
        /\ appended = 1 =>
               added(source_column(scall'.msg.source)) = 1

\* C27: from an empty Stats worksheet and while no storage call fails,
\* every date row of Stats has Total equal to the sum of its source
\* columns, the Totals add up to the number of rows appended to Messages,
\* and each newly stored message adds 1 to one source column and to Total
C27_StatsConsistent ==
    /\ [](RowTotals /\ TotalsCountMessages)
    /\ [][StoredIncrements]_vars

\* C27 witness: on a spreadsheet with its header rows a gmail message is
\* stored on one day and a slack message on the next: two date rows, the
\* Emails column counted in the first and the Other column in the second
C27_Witness ==
    /\ sheet_ok
    /\ Len(DataRows(book, "Messages")) < Len(book["Messages"])
    /\ Len(DataRows(book, "Stats")) < Len(book["Stats"])
    /\ Len(DataRows(book, "Messages")) = 2
    /\ Len(DataRows(book, "Stats")) = 2
    /\ DataRows(book, "Stats")[1][2] = 1 /\ DataRows(book, "Stats")[1][6] = 1
    /\ DataRows(book, "Stats")[2][5] = 1 /\ DataRows(book, "Stats")[2][6] = 1
    /\ scall.op = "store" /\ scall.ret /\ scall.changed

----------------------------------------------------------------------------
(* Properties of the reply action and of the Processed column *)

\* the calls of a log as pairs of operation and message id
OpsOf(calls) == [j \in 1..Len(calls) |-> <<calls[j].op, calls[j].id>>]

\* the calls a run is to make for the first n messages: for each one in
\* turn classify and store, and one reply when its intent is
\* interview_request
RECURSIVE RepliesForRequests(_, _)
RepliesForRequests(messages, n) ==
    IF n = 0 THEN <<>>
    ELSE RepliesForRequests(messages, n - 1)
            \o <<<<"classify", messages[n].id>>, <<"store", messages[n].id>>>>
            \o (IF messages[n].intent = "interview_request"
                THEN <<<<"reply", messages[n].id>>>> ELSE <<>>)

\* C26: in every run the reply action happens once for each message
\* occurrence classified interview_request and for no other message,
\* whatever its store call did and whatever earlier runs did for it
C26_ReplyPerRequest ==
    OpsOf(mn.calls) = RepliesForRequests(mn.all_messages, mn.i)

\* the j-th call of the run is a reply for the message id, made after a
\* store call that returned ok
ReplyAfterStore(j, id, ok) ==
    /\ j > 1 /\ mn.calls[j].op = "reply" /\ mn.calls[j].id = id
    /\ mn.calls[j - 1].op = "store" /\ mn.calls[j - 1].ok = ok

\* the message rows of Messages with this id
MessageRowsOf(id) == SelectSeq(DataRows(book, "Messages"), LAMBDA row : row[1] = id)

\* C26 witness: a run over messages that an earlier run has stored and
\* replied to has ended: a message with one row in Messages, already
\* replied to, got its reply again, another one got it though its store
\* call returned False or a message classified otherwise got none
C26_Witness ==
    /\ mn.pc = "done" /\ sheet_ok
    /\ \E id \in mn.replied :
           /\ Len(MessageRowsOf(id)) = 1
           /\ \E j \in 1..Len(mn.calls) : ReplyAfterStore(j, id, TRUE)
    /\ \/ \E id \in mn.replied : \E j \in 1..Len(mn.calls) : ReplyAfterStore(j, id, FALSE)
       \/ \E k \in 1..Len(mn.all_messages) :
              /\ mn.all_messages[k].intent # "interview_request"
              /\ ~Called("reply", mn.all_messages[k].id)

\* C28: every message row of Messages has Processed = false, during and
\* after any number of batch runs
C28_NeverProcessed ==
    \A k \in 1..Len(DataRows(book, "Messages")) :
        DataRows(book, "Messages")[k][9] = "false"

\* C28 witness: at the end of a later run the row of a message whose reply
\* was sent by an earlier run and delivered again by this one still has
\* Processed = false
C28_Witness ==
    /\ mn.pc = "done"
    /\ \E id \in mn.replied :
           /\ Len(MessageRowsOf(id)) >= 1
           /\ MessageRowsOf(id)[1][9] = "false"
           /\ \E j \in 1..Len(mn.calls) :
                  mn.calls[j].op = "reply" /\ mn.calls[j].id = id /\ mn.calls[j].ok

====
